---- MODULE Spec2Model ----
(***************************************************************************)
(* Model of the configuration engine of @ldesign/env:                      *)
(*   - ConfigMerger (merge / diff / pick / omit / flatten / unflatten),    *)
(*     once over immutable values and once over a heap of object           *)
(*     references (for the frame conditions),                              *)
(*   - CryptoManager (setKey / encrypt / decrypt and the field methods),   *)
(*   - SchemaValidator (constructor / validate / validateField /           *)
(*     getDefaults),                                                       *)
(*   - EnvManager (constructor / load / set / save / saveKey / watch) over *)
(*     the files of its base directory,                                    *)
(*   - ConfigCache (set / get / has / delete / refresh / clear / evict).   *)
(*                                                                         *)
(* JavaScript values are tagged pairs <<kind, payload>>.  A string used as *)
(* an object key is a tuple of characters, so that the template string of  *)
(* flatten and the String.split of unflatten are computed, not assumed.    *)
(* A plain object is a function from keys to values.                       *)
(***************************************************************************)
EXTENDS Integers, Sequences, FiniteSets, TLC

VARIABLES
    args,     \* the arguments of the last call on an object
    op,       \* the method that call ran ("idle" before)
    res,      \* what the call returned
    heap,     \* heap model: the objects allocated so far, by reference
    cryptoKey, \* CryptoManager.key: the derived key, or NoKey
    box,      \* the string the caller of the CryptoManager holds, or <<>>
    sent,     \* the encrypt (or encryptFields) call whose value the caller holds
    altered,  \* whether a byte of box was changed after encrypt returned it
    step,     \* the CryptoManager step that ran last
    out,      \* what the last encrypt or decrypt returned or threw
    manager,  \* the fields of the EnvManager
    project,  \* the files of the base directory of the EnvManager
    observed, \* what the callers and the listeners of the EnvManager hold and saw
    cache,    \* the ConfigCache: the entries of its Map, in insertion order, and its options
    now       \* Date.now()

mergerVars == <<args, op, res, heap>>

cryptoVars == <<cryptoKey, box, sent, altered, step, out>>

envVars == <<manager, project, observed>>

cacheVars == <<cache, now>>

vars == <<args, op, res, heap, cryptoKey, box, sent, altered, step, out,
          manager, project, observed, cache, now>>

\* the state of the EnvManager and of the ConfigCache in the specifications
\* that do not use them
OthersIdle ==
    /\ manager = <<>>
    /\ project = <<>>
    /\ observed = <<>>
    /\ cache = <<>>
    /\ now = 0

\* the state of the CryptoManager in the specifications that do not use it
CryptoIdle ==
    /\ cryptoKey = <<"nokey">>
    /\ box = <<>>
    /\ sent = <<>>
    /\ altered = FALSE
    /\ step = "new"
    /\ out = <<>>

\* the state of the ConfigMerger in the specifications that do not use it
MergerIdle ==
    /\ args = <<>>
    /\ op = "idle"
    /\ res = <<>>
    /\ heap = <<>>

-----------------------------------------------------------------------------
(* JavaScript values *)

Str(s)  == <<"string", s>>
Num(n)  == <<"number", n>>
Bool(b) == <<"boolean", b>>
Null    == <<"null", 0>>
Undef   == <<"undefined", 0>>
Obj(f)  == <<"object", f>>
Arr(s)  == <<"array", s>>
DateV(n) == <<"date", n>>      \* a Date or RegExp instance: an object, not a plain one

EmptyObj == [k \in {} |-> Undef]

\* typeof value
TypeOf(v) == IF v[1] \in {"null", "object", "array", "date"} THEN "object" ELSE v[1]

\* Array.isArray(value)
IsArray(v) == v[1] = "array"

\* ConfigMerger.isPlainObject
IsPlainObject(value) ==
    /\ value # Null
    /\ TypeOf(value) = "object"
    /\ ~IsArray(value)
    /\ value[1] # "date"

\* obj[key]: reading an absent property gives undefined
Get(obj, key) == IF key \in DOMAIN obj THEN obj[key] ELSE Undef

\* Object.keys(obj) as a list.  Objects are functions here, so the list is in
\* one fixed order; the results on the inputs below do not depend on which
\* one (the heap model further down keeps the insertion order).
RECURSIVE SeqOf(_)
SeqOf(S) == IF S = {} THEN <<>>
            ELSE LET x == CHOOSE y \in S : TRUE IN <<x>> \o SeqOf(S \ {x})

ObjectKeys(obj) == SeqOf(DOMAIN obj)

Range(s) == {s[i] : i \in 1..Len(s)}

\* a === b.  Two primitives are identical iff they have the same type and value.
\* Objects and arrays are compared by reference: the two arguments of a call
\* are distinct references, and areEqual then goes on to compare them
\* structurally.
StrictEq(a, b) ==
    /\ TypeOf(a) # "object" \/ a = Null
    /\ a = b

\* areEqual without the structural comparison: a === b only
AreEqualByReference(a, b) == StrictEq(a, b)

\* ConfigMerger.areEqual
RECURSIVE AreEqual(_, _)
AreEqual(a, b) ==
    IF StrictEq(a, b) THEN TRUE
    ELSE IF IsPlainObject(a) /\ IsPlainObject(b) THEN
        IF Cardinality(DOMAIN a[2]) # Cardinality(DOMAIN b[2]) THEN FALSE
        ELSE \A key \in DOMAIN a[2] : AreEqual(a[2][key], Get(b[2], key))
    ELSE IF IsArray(a) /\ IsArray(b) THEN
        IF Len(a[2]) # Len(b[2]) THEN FALSE
        ELSE \A index \in 1..Len(a[2]) : AreEqual(a[2][index], b[2][index])
    ELSE FALSE

-----------------------------------------------------------------------------
(* ConfigMerger.diff *)

\* an array in place of the Set: every occurrence is kept
DedupNone(s) == s

\* new Set([...]) keeps the first occurrence of every element, in order
RECURSIVE Dedup(_)
Dedup(s) ==
    IF s = <<>> THEN <<>>
    ELSE LET front == Dedup(SubSeq(s, 1, Len(s) - 1))
             last  == s[Len(s)]
         IN IF last \in Range(front) THEN front ELSE Append(front, last)

\* const allKeys = new Set([...Object.keys(from), ...Object.keys(to)])
AllKeys(from, to) == Dedup(ObjectKeys(from) \o ObjectKeys(to))

EmptyDiff == [added |-> <<>>, removed |-> <<>>, modified |-> <<>>, unchanged |-> <<>>]

\* one iteration of the loop of diff
DiffStep(d, from, to, key) ==
    LET hasInFrom == key \in DOMAIN from
        hasInTo   == key \in DOMAIN to
    IN IF ~hasInFrom /\ hasInTo THEN [d EXCEPT !.added = Append(@, key)]
       ELSE IF hasInFrom /\ ~hasInTo THEN [d EXCEPT !.removed = Append(@, key)]
       ELSE IF hasInFrom /\ hasInTo THEN
            IF AreEqual(from[key], to[key])
            THEN [d EXCEPT !.unchanged = Append(@, key)]
            ELSE [d EXCEPT !.modified =
                     Append(@, [key |-> key, from |-> from[key], to |-> to[key]])]
       ELSE d

RECURSIVE DiffLoop(_, _, _, _)
DiffLoop(d, from, to, keys) ==
    IF keys = <<>> THEN d
    ELSE DiffLoop(DiffStep(d, from, to, Head(keys)), from, to, Tail(keys))

Diff(from, to) == DiffLoop(EmptyDiff, from, to, AllKeys(from, to))

-----------------------------------------------------------------------------
(* ConfigMerger.merge *)

\* deepMerge without the recursion: { ...target, ...source }
DeepMergeShallow(target, source) ==
    [key \in DOMAIN target \cup DOMAIN source |->
        IF key \in DOMAIN source THEN source[key] ELSE target[key]]

\* deepMerge that keeps a plain object of the target when the source has
\* something else under the same key
DeepMergeTargetWins(target, source) ==
    [key \in DOMAIN target \cup DOMAIN source |->
        IF key \notin DOMAIN source THEN target[key]
        ELSE IF IsPlainObject(Get(target, key)) THEN target[key]
        ELSE source[key]]

\* ConfigMerger.deepMerge: result = { ...target }, then every entry of source
\* either merges into result[key] (both plain objects) or overwrites it.
RECURSIVE DeepMerge(_, _)
DeepMerge(target, source) ==
    [key \in DOMAIN target \cup DOMAIN source |->
        IF key \notin DOMAIN source THEN target[key]
        ELSE IF IsPlainObject(source[key]) /\ IsPlainObject(Get(target, key))
             THEN Obj(DeepMerge(target[key][2], source[key][2]))
             ELSE source[key]]

\* configs.reduce((acc, config) => this.deepMerge(acc, config), {})
RECURSIVE Reduce(_, _)
Reduce(acc, configs) ==
    IF configs = <<>> THEN acc
    ELSE Reduce(DeepMerge(acc, Head(configs)), Tail(configs))

Merge(configs) == Reduce(EmptyObj, configs)

-----------------------------------------------------------------------------
(* ConfigMerger.flatten / unflatten *)

\* Object.assign(result, other)
Assign(result, other) ==
    [key \in DOMAIN result \cup DOMAIN other |->
        IF key \in DOMAIN other THEN other[key] ELSE result[key]]

\* prefix ? `${prefix}${separator}${key}` : key   (the empty string is falsy)
NewKey(prefix, separator, key) ==
    IF prefix # <<>> THEN prefix \o separator \o key ELSE key

RECURSIVE Flatten(_, _, _)
RECURSIVE FlattenLoop(_, _, _, _, _)
FlattenLoop(result, config, prefix, separator, keys) ==
    IF keys = <<>> THEN result
    ELSE LET key    == Head(keys)
             value  == config[key]
             newKey == NewKey(prefix, separator, key)
             next   == IF IsPlainObject(value)
                       THEN Assign(result, Flatten(value[2], newKey, separator))
                       ELSE Assign(result, newKey :> value)
         IN FlattenLoop(next, config, prefix, separator, Tail(keys))

Flatten(config, prefix, separator) ==
    FlattenLoop(EmptyObj, config, prefix, separator, ObjectKeys(config))

\* the index of the first occurrence of separator in s, 0 when there is none
FirstAt(s, separator) ==
    LET hits == {i \in 1..(Len(s) - Len(separator) + 1) :
                    SubSeq(s, i, i + Len(separator) - 1) = separator}
    IN IF hits = {} THEN 0 ELSE CHOOSE i \in hits : \A j \in hits : i <= j

\* key.split(separator), for a non-empty separator
RECURSIVE Split(_, _)
Split(s, separator) ==
    LET i == FirstAt(s, separator)
    IN IF i = 0 THEN <<s>>
       ELSE <<SubSeq(s, 1, i - 1)>>
            \o Split(SubSeq(s, i + Len(separator), Len(s)), separator)

\* what a call that throws a TypeError leaves its caller with
TypeError == <<"throw", "TypeError">>

Throws(r) == r[1] = "throw"

\* The inner loop of unflatten and the final assignment, for one entry:
\* walk down keys[0..n-2], creating {} where a key is missing, then assign
\* current[keys[n-1]] = value.  Class bodies are strict code: the in operator
\* on a primitive, and an assignment to a property of a primitive, throw.
\* A property set on an array or a Date leaves the value as modelled here.
\* The result is Obj(current') or TypeError.
RECURSIVE SetPath(_, _, _)
SetPath(current, keys, value) ==
    IF Len(keys) = 1 THEN Obj(Assign(current, keys[1] :> value))
    ELSE LET k     == keys[1]
             child == IF k \in DOMAIN current THEN current[k] ELSE Obj(EmptyObj)
         IN IF IsPlainObject(child)
            THEN LET sub == SetPath(child[2], Tail(keys), value)
                 IN IF Throws(sub) THEN TypeError
                    ELSE Obj(Assign(current, k :> sub))
            ELSE IF TypeOf(child) = "object" /\ child # Null
            THEN Obj(current)
            ELSE TypeError

RECURSIVE UnflattenLoop(_, _, _, _)
UnflattenLoop(result, config, separator, keys) ==
    IF keys = <<>> \/ Throws(result) THEN result
    ELSE UnflattenLoop(SetPath(result[2], Split(Head(keys), separator), config[Head(keys)]),
                       config, separator, Tail(keys))

\* ConfigMerger.unflatten: Obj(result), or TypeError when the walk throws
Unflatten(config, separator) ==
    UnflattenLoop(Obj(EmptyObj), config, separator, ObjectKeys(config))

-----------------------------------------------------------------------------
(* The inputs of the value-level specifications *)

MaxArrLen == 2      \* longest array among the inputs

KA == <<"a">>
KB == <<"b">>
KC == <<"c">>
KD == <<"d">>
Dot == <<".">>

Absent == <<"absent", 0>>

\* the object with the given value under each of the four keys, Absent
\* standing for a key the object does not have
Make(a, b, c, d) ==
    LET given == (KA :> a) @@ (KB :> b) @@ (KC :> c) @@ (KD :> d)
    IN [k \in {x \in DOMAIN given : given[x] # Absent} |-> given[k]]

ObjectsOver(keys, vals) == UNION {[K -> vals] : K \in SUBSET keys}

SeqsUpTo(vals, n) == UNION {[1..m -> vals] : m \in 0..n}

Primitives == {Str("1"), Num(1), Num(2), Null, Undef}

NestedObjs == {Obj(f) : f \in ObjectsOver({KA, KB}, {Num(1), Undef})}

Arrays == {Arr(s) : s \in SeqsUpTo({Num(1), Str("1")}, MaxArrLen)}

DeepVals == { Obj(KA :> Obj(KA :> Num(1))),
              Obj(KA :> Obj(KB :> Undef)),
              Obj(KA :> Arr(<<Num(1)>>)),
              Arr(<<Obj(KA :> Num(1))>>),
              Arr(<<Obj(KB :> Undef)>>) }

DiffVals == Primitives \cup NestedObjs \cup Arrays \cup DeepVals

DiffConfigs ==
    {Make(a, b, c, d) : a \in DiffVals \cup {Absent},
                        b \in {Absent, Num(1), Str("1")},
                        c \in {Absent, Num(1)},
                        d \in {Absent, Num(1)}}

-----------------------------------------------------------------------------
(* SpecDiff: one call diff(from, to) on every pair of inputs *)

InitDiff ==
    /\ heap = <<>>
    /\ CryptoIdle
    /\ OthersIdle
    /\ args \in DiffConfigs \X DiffConfigs
    /\ op = "idle"
    /\ res = <<>>

DoDiff ==
    /\ op = "idle"
    /\ res' = Diff(args[1], args[2])
    /\ op' = "diff"
    /\ UNCHANGED <<args, heap, cryptoVars>>
    /\ UNCHANGED <<envVars, cacheVars>>

NextDiff == DoDiff

SpecDiff == InitDiff /\ [][NextDiff]_vars

\* the keys diff reports as modified
ModifiedKeys(d) == {d.modified[i].key : i \in 1..Len(d.modified)}

NoDuplicates(s) == Cardinality(Range(s)) = Len(s)

\* C1: the four groups of diff(A, B) are pairwise disjoint, no key occurs twice
\* inside one group, and together they are exactly keys(A) \cup keys(B).
DiffPartitionsKeys ==
    op = "diff" =>
        LET A == Range(res.added)
            R == Range(res.removed)
            M == ModifiedKeys(res)
            U == Range(res.unchanged)
        IN /\ A \cap R = {} /\ A \cap M = {} /\ A \cap U = {}
           /\ R \cap M = {} /\ R \cap U = {} /\ M \cap U = {}
           /\ NoDuplicates(res.added) /\ NoDuplicates(res.removed)
           /\ NoDuplicates(res.unchanged)
           /\ Cardinality(M) = Len(res.modified)
           /\ A \cup R \cup M \cup U = DOMAIN args[1] \cup DOMAIN args[2]

\* a diff in which all four groups are populated
DiffPartitionsKeysWitness ==
    /\ op = "diff"
    /\ res.added # <<>> /\ res.removed # <<>>
    /\ res.modified # <<>> /\ res.unchanged # <<>>

\* C2 (as claimed): every key is classified by presence and by deep equality
\* of the two values, and modified records both values.
DiffClassifiesByDeepEquality ==
    op = "diff" =>
        LET from == args[1]
            to   == args[2]
        IN /\ \A k \in DOMAIN from \cup DOMAIN to :
                /\ k \in Range(res.added) <=> (k \notin DOMAIN from /\ k \in DOMAIN to)
                /\ k \in Range(res.removed) <=> (k \in DOMAIN from /\ k \notin DOMAIN to)
                /\ k \in ModifiedKeys(res) <=>
                       (k \in DOMAIN from /\ k \in DOMAIN to /\ from[k] # to[k])
                /\ k \in Range(res.unchanged) <=>
                       (k \in DOMAIN from /\ k \in DOMAIN to /\ from[k] = to[k])
           /\ \A i \in 1..Len(res.modified) :
                LET m == res.modified[i]
                IN m.from = from[m.key] /\ m.to = to[m.key]

\* C3 (as claimed): areEqual is structural equality on the values diff hands it
AreEqualIsStructural ==
    op = "diff" =>
      \A k \in DOMAIN args[1] \cap DOMAIN args[2] :
        AreEqual(args[1][k], args[2][k]) <=> (args[1][k] = args[2][k])

-----------------------------------------------------------------------------
(* SpecMerge: merge(...configs) on up to MaxArgs inputs, alone and composed *)

MaxArgs == 3        \* most arguments of one merge call

MergeVals ==
    { Num(1), Null, Arr(<<Num(1)>>), DateV(1),
      Obj(EmptyObj), Obj(KA :> Num(1)), Obj(KB :> Num(2)),
      Obj(KA :> Obj(KA :> Num(1))), Obj(KA :> Obj(KB :> Num(2))),
      Obj(KA :> Arr(<<Num(2)>>)) }

MergeConfigs ==
    {Make(a, b, Absent, Absent) : a \in MergeVals \cup {Absent}, b \in {Absent, Num(1)}}

InitMerge ==
    /\ heap = <<>>
    /\ CryptoIdle
    /\ OthersIdle
    /\ args \in SeqsUpTo(MergeConfigs, MaxArgs)
    /\ op = "idle"
    /\ res = <<>>

\* merger.merge(...args)
DoMerge ==
    /\ op = "idle"
    /\ res' = Merge(args)
    /\ op' = "merge"
    /\ UNCHANGED <<args, heap, cryptoVars>>
    /\ UNCHANGED <<envVars, cacheVars>>

\* merger.merge(merger.merge(A, B), C)
DoMergeLeft ==
    /\ op = "idle"
    /\ Len(args) = 3
    /\ res' = Merge(<<Merge(<<args[1], args[2]>>), args[3]>>)
    /\ op' = "mergeLeft"
    /\ UNCHANGED <<args, heap, cryptoVars>>
    /\ UNCHANGED <<envVars, cacheVars>>

\* merger.merge(A, merger.merge(B, C))
DoMergeRight ==
    /\ op = "idle"
    /\ Len(args) = 3
    /\ res' = Merge(<<args[1], Merge(<<args[2], args[3]>>)>>)
    /\ op' = "mergeRight"
    /\ UNCHANGED <<args, heap, cryptoVars>>
    /\ UNCHANGED <<envVars, cacheVars>>

NextMerge == DoMerge \/ DoMergeLeft \/ DoMergeRight

SpecMerge == InitMerge /\ [][NextMerge]_vars

\* a plain object as the claim describes it: an object that is no array, Date,
\* RegExp or null
ClaimedPlain(v) == v[1] = "object"

\* the two-argument step as C5 states it
RECURSIVE ClaimedStep(_, _)
ClaimedStep(A, B) ==
    [k \in DOMAIN A \cup DOMAIN B |->
        IF k \notin DOMAIN B THEN A[k]
        ELSE IF k \in DOMAIN A /\ ClaimedPlain(A[k]) /\ ClaimedPlain(B[k])
             THEN Obj(ClaimedStep(A[k][2], B[k][2]))
             ELSE B[k]]

RECURSIVE ClaimedFold(_, _)
ClaimedFold(acc, configs) ==
    IF configs = <<>> THEN acc
    ELSE ClaimedFold(ClaimedStep(acc, Head(configs)), Tail(configs))

\* C5: merge is the left-to-right fold, from the empty object, of the step
\* "absent from B: A[k]; both plain objects: merged key-wise; else B[k]"; so
\* merge(A, B)[k] = B[k] whenever k is in B and A[k], B[k] are not both plain
\* objects, and an array of B replaces whatever A had.
MergeIsRightBiasedFold ==
    op = "merge" =>
        /\ res = ClaimedFold(EmptyObj, args)
        /\ Len(args) = 2 =>
             \A k \in DOMAIN args[2] :
                /\ ~(k \in DOMAIN args[1] /\ ClaimedPlain(args[1][k]) /\ ClaimedPlain(args[2][k]))
                      => res[k] = args[2][k]
                /\ IsArray(args[2][k]) => res[k] = args[2][k]

\* merge(A, B, C) in which a plain object replaces an array of A, is then
\* merged two levels deep with C's, and a key of A alone survives
MergeIsRightBiasedFoldWitness ==
    /\ op = "merge"
    /\ Len(args) = 3
    /\ IsArray(Get(args[1], KA))
    /\ KB \in DOMAIN args[1] /\ KB \notin DOMAIN args[2] /\ KB \notin DOMAIN args[3]
    /\ Get(res, KA) = Obj(KA :> Obj((KA :> Num(1)) @@ (KB :> Num(2))))

KindOf(v) == IF ClaimedPlain(v) THEN "plain object"
             ELSE IF IsArray(v) THEN "array" ELSE "other"

\* C7: merge is not commutative (two arguments that differ under a common key
\* where they are not both plain objects give different results in the two
\* orders) and not associative (A, B, C with a plain object, an array and a
\* plain object under one key, A's object having a key C's lacks, give
\* different results in the two groupings); and under every key of the last
\* argument the result has the kind of the last argument's value.
MergeLaterKindWins ==
    /\ (op = "merge" /\ Len(args) >= 1) =>
          \A k \in DOMAIN args[Len(args)] :
              k \in DOMAIN res /\ KindOf(res[k]) = KindOf(args[Len(args)][k])
    /\ (op = "merge" /\ Len(args) = 2) =>
          ((\E k \in DOMAIN args[1] \cap DOMAIN args[2] :
                /\ args[1][k] # args[2][k]
                /\ ~(ClaimedPlain(args[1][k]) /\ ClaimedPlain(args[2][k])))
            => res # Merge(<<args[2], args[1]>>))
    /\ (op \in {"mergeLeft", "mergeRight"}) =>
          ((\E k \in DOMAIN args[1] \cap DOMAIN args[2] \cap DOMAIN args[3] :
                /\ ClaimedPlain(args[1][k]) /\ IsArray(args[2][k]) /\ ClaimedPlain(args[3][k])
                /\ ~(DOMAIN args[1][k][2] \subseteq DOMAIN args[3][k][2]))
            => Merge(<<Merge(<<args[1], args[2]>>), args[3]>>)
                 # Merge(<<args[1], Merge(<<args[2], args[3]>>)>>))

\* the two groupings of a plain object, an array and a plain object
MergeLaterKindWinsWitness ==
    /\ op = "mergeLeft"
    /\ KA \in DOMAIN args[1] \cap DOMAIN args[2] \cap DOMAIN args[3]
    /\ ClaimedPlain(args[1][KA]) /\ IsArray(args[2][KA]) /\ ClaimedPlain(args[3][KA])
    /\ res # Merge(<<args[1], Merge(<<args[2], args[3]>>)>>)

-----------------------------------------------------------------------------
(* SpecFlat: flatten(obj, '', sep), unflatten of the result, flatten again *)

Separators == {Dot, <<"_", "_">>}

\* nested objects, the empty one included; no key holds a separator
FlatVals ==
    { Num(1), Undef, Arr(<<Num(1)>>) }
    \cup {Obj(f) : f \in ObjectsOver({KA, KB}, {Num(1)})}
    \cup { Obj(KA :> Obj(KB :> Num(1))), Obj(KA :> Obj(EmptyObj)),
           Obj((KA :> Obj(KA :> Num(2))) @@ (KB :> Arr(<<>>))) }

FlatConfigs ==
    {Make(a, b, Absent, Absent) : a \in FlatVals \cup {Absent}, b \in FlatVals \cup {Absent}}

\* args = <<obj, separator>>; res collects what the successive calls return
InitFlat ==
    /\ heap = <<>>
    /\ CryptoIdle
    /\ OthersIdle
    /\ args \in FlatConfigs \X Separators
    /\ op = "idle"
    /\ res = <<>>

\* flat = merger.flatten(obj, '', separator)
DoFlatten ==
    /\ op = "idle"
    /\ res' = <<Flatten(args[1], <<>>, args[2])>>
    /\ op' = "flatten"
    /\ UNCHANGED <<args, heap, cryptoVars>>
    /\ UNCHANGED <<envVars, cacheVars>>

\* back = merger.unflatten(flat, separator)
DoUnflatten ==
    /\ op = "flatten"
    /\ res' = Append(res, Unflatten(res[1], args[2]))
    /\ op' = "unflatten"
    /\ UNCHANGED <<args, heap, cryptoVars>>
    /\ UNCHANGED <<envVars, cacheVars>>

\* merger.flatten(back, '', separator)
DoFlattenAgain ==
    /\ op = "unflatten"
    /\ ~Throws(res[2])
    /\ res' = Append(res, Flatten(res[2][2], <<>>, args[2]))
    /\ op' = "flattenAgain"
    /\ UNCHANGED <<args, heap, cryptoVars>>
    /\ UNCHANGED <<envVars, cacheVars>>

NextFlat == DoFlatten \/ DoUnflatten \/ DoFlattenAgain

SpecFlat == InitFlat /\ [][NextFlat]_vars

\* no key of obj, at any depth, contains the separator
RECURSIVE NoSeparatorInKeys(_, _)
NoSeparatorInKeys(obj, separator) ==
    \A k \in DOMAIN obj :
        /\ FirstAt(k, separator) = 0
        /\ IsPlainObject(obj[k]) => NoSeparatorInKeys(obj[k][2], separator)

\* C8 (as claimed): unflatten(flatten(obj, '', sep), sep) is obj for every obj
\* without a separator in its keys, empty nested objects included, and
\* flatten(unflatten(flat, sep), '', sep) is flat for every flat = flatten(obj).
FlattenUnflattenInverse ==
    /\ (op \in {"unflatten", "flattenAgain"} /\ NoSeparatorInKeys(args[1], args[2]))
          => res[2] = Obj(args[1])
    /\ op = "flattenAgain" => res[3] = res[1]

\* whether obj holds an empty plain object at any depth
RECURSIVE HasEmptyObject(_)
HasEmptyObject(obj) ==
    \E k \in DOMAIN obj :
        IsPlainObject(obj[k]) /\ (DOMAIN obj[k][2] = {} \/ HasEmptyObject(obj[k][2]))

\* what the code does: the round trip gives obj back unless obj holds an empty
\* nested object, which flatten drops
FlattenUnflattenInverseButEmpty ==
    /\ (op \in {"unflatten", "flattenAgain"} /\ ~HasEmptyObject(args[1]))
          => res[2] = Obj(args[1])
    /\ op = "flattenAgain" => res[3] = res[1]

-----------------------------------------------------------------------------
(* ConfigMerger over a heap.  An object is a reference into heap; heap[r]    *)
(* holds its keys in insertion order and the cell under each key.  A cell is *)
(* a primitive value or Ref(r).  Every write of the code is one HSet or      *)
(* HDelete on the reference the code writes through.                         *)

Ref(r) == <<"ref", r>>

IsRef(cell) == cell[1] = "ref"

\* {}
HNew(h) == Append(h, [keys |-> <<>>, val |-> EmptyObj])

\* { ...obj }
HCopy(h, r) == Append(h, h[r])

\* key in obj
HHas(h, r, key) == key \in DOMAIN h[r].val

\* obj[key]
HGet(h, r, key) == IF HHas(h, r, key) THEN h[r].val[key] ELSE Undef

\* obj[key] = cell
HSet(h, r, key, cell) ==
    [h EXCEPT ![r] = [keys |-> IF key \in DOMAIN @.val THEN @.keys ELSE Append(@.keys, key),
                      val  |-> Assign(@.val, key :> cell)]]

\* delete obj[key]
HDelete(h, r, key) ==
    [h EXCEPT ![r] = [keys |-> SelectSeq(@.keys, LAMBDA k : k # key),
                      val  |-> [k \in DOMAIN @.val \ {key} |-> @.val[k]]]]

\* isPlainObject of a cell: the objects of the heap are plain objects, the
\* primitive cells are not
HIsPlainObject(cell) == IsRef(cell)

\* deepMerge(target, source): [h |-> the heap afterwards, r |-> the result]
RECURSIVE HDeepMerge(_, _, _)
RECURSIVE HDeepMergeLoop(_, _, _, _)
HDeepMergeLoop(h, result, source, keys) ==
    IF keys = <<>> THEN [h |-> h, r |-> result]
    ELSE LET key   == Head(keys)
             value == h[source].val[key]
             old   == HGet(h, result, key)
         IN IF HIsPlainObject(value) /\ HIsPlainObject(old)
            THEN LET m == HDeepMerge(h, old[2], value[2])
                 IN HDeepMergeLoop(HSet(m.h, result, key, Ref(m.r)), result, source, Tail(keys))
            ELSE HDeepMergeLoop(HSet(h, result, key, value), result, source, Tail(keys))

HDeepMerge(h, target, source) ==
    LET h1 == HCopy(h, target)
    IN HDeepMergeLoop(h1, Len(h1), source, h[source].keys)

RECURSIVE HReduce(_, _, _)
HReduce(h, acc, configs) ==
    IF configs = <<>> THEN [h |-> h, r |-> acc]
    ELSE LET m == HDeepMerge(h, acc, Head(configs))
         IN HReduce(m.h, m.r, Tail(configs))

\* merge(...configs)
HMerge(h, configs) ==
    LET h1 == HNew(h) IN HReduce(h1, Len(h1), configs)

RECURSIVE HPickLoop(_, _, _, _)
HPickLoop(h, result, config, keys) ==
    IF keys = <<>> THEN [h |-> h, r |-> result]
    ELSE LET key == Head(keys)
         IN IF HHas(h, config, key)
            THEN HPickLoop(HSet(h, result, key, h[config].val[key]), result, config, Tail(keys))
            ELSE HPickLoop(h, result, config, Tail(keys))

\* pick(config, keys)
HPick(h, config, keys) ==
    LET h1 == HNew(h) IN HPickLoop(h1, Len(h1), config, keys)

RECURSIVE HOmitLoop(_, _, _)
HOmitLoop(h, result, keys) ==
    IF keys = <<>> THEN [h |-> h, r |-> result]
    ELSE HOmitLoop(HDelete(h, result, Head(keys)), result, Tail(keys))

\* omit(config, keys)
HOmit(h, config, keys) ==
    LET h1 == HCopy(h, config) IN HOmitLoop(h1, Len(h1), keys)

\* Object.assign(result, other)
RECURSIVE HAssign(_, _, _, _)
HAssign(h, result, other, keys) ==
    IF keys = <<>> THEN h
    ELSE HAssign(HSet(h, result, Head(keys), h[other].val[Head(keys)]), result, other, Tail(keys))

RECURSIVE HFlatten(_, _, _, _)
RECURSIVE HFlattenLoop(_, _, _, _, _, _)
HFlattenLoop(h, result, config, prefix, separator, keys) ==
    IF keys = <<>> THEN [h |-> h, r |-> result]
    ELSE LET key    == Head(keys)
             value  == h[config].val[key]
             newKey == NewKey(prefix, separator, key)
         IN IF HIsPlainObject(value)
            THEN LET sub == HFlatten(h, value[2], newKey, separator)
                 IN HFlattenLoop(HAssign(sub.h, result, sub.r, sub.h[sub.r].keys),
                                 result, config, prefix, separator, Tail(keys))
            ELSE HFlattenLoop(HSet(h, result, newKey, value),
                              result, config, prefix, separator, Tail(keys))

\* flatten(config, prefix, separator)
HFlatten(h, config, prefix, separator) ==
    LET h1 == HNew(h)
    IN HFlattenLoop(h1, Len(h1), config, prefix, separator, h[config].keys)

\* The walk of unflatten for one entry, current being the cell the code holds
\* in `current`: [h |-> the heap afterwards, threw |-> whether it threw].
\* `k in current` and `current[k] = value` throw a TypeError when current is
\* a primitive.
RECURSIVE HWalk(_, _, _, _)
HWalk(h, current, keys, value) ==
    IF ~IsRef(current) THEN [h |-> h, threw |-> TRUE]
    ELSE IF Len(keys) = 1
    THEN [h |-> HSet(h, current[2], keys[1], value), threw |-> FALSE]
    ELSE LET k  == keys[1]
             h1 == IF HHas(h, current[2], k) THEN h
                   ELSE LET hn == HNew(h) IN HSet(hn, current[2], k, Ref(Len(hn)))
         IN HWalk(h1, h1[current[2]].val[k], Tail(keys), value)

\* the loop of unflatten over entries = Object.entries(config), a list of
\* <<key, cell>> taken when the loop starts
RECURSIVE HUnflattenLoop(_, _, _, _)
HUnflattenLoop(h, result, separator, entries) ==
    IF entries = <<>> THEN [h |-> h, r |-> result, threw |-> FALSE]
    ELSE LET w == HWalk(h, Ref(result), Split(entries[1][1], separator), entries[1][2])
         IN IF w.threw THEN [h |-> w.h, r |-> result, threw |-> TRUE]
            ELSE HUnflattenLoop(w.h, result, separator, Tail(entries))

\* Object.entries(obj)
HEntries(h, r) == [i \in 1..Len(h[r].keys) |-> <<h[r].keys[i], h[r].val[h[r].keys[i]]>>]

\* unflatten(config, separator)
HUnflatten(h, config, separator) ==
    LET h1 == HNew(h)
    IN HUnflattenLoop(h1, Len(h1), separator, HEntries(h, config))

-----------------------------------------------------------------------------
(* SpecHeap: one ConfigMerger call on objects that share nested objects *)

MaxKeys == 2        \* most keys of the first input object

KAB == KA \o Dot \o KB          \* the key "a.b"

InjectiveSeqs(S, n) ==
    {s \in SeqsUpTo(S, n) : \A i, j \in 1..Len(s) : i # j => s[i] # s[j]}

HeapObjects(keys, cells, n) ==
    UNION {{[keys |-> ks, val |-> f] : f \in [Range(ks) -> cells]} :
              ks \in InjectiveSeqs(keys, n)}

\* the value a reference stands for (the heaps of InitHeap have no cycle)
RECURSIVE Deref(_, _)
Deref(h, r) ==
    [k \in DOMAIN h[r].val |->
        IF IsRef(h[r].val[k]) THEN Obj(Deref(h, h[r].val[k][2])) ELSE h[r].val[k]]

\* heap[1], heap[2]: nested objects; heap[3], heap[4]: the configs handed to
\* the call, whose cells may refer to the nested objects
InitHeap ==
    /\ heap \in HeapObjects({KA, KB}, {Num(1)}, 1)
                \X HeapObjects({KB}, {Num(2)}, 1)
                \X HeapObjects({KA, KB, KAB}, {Num(1), Ref(1), Ref(2)}, MaxKeys)
                \X HeapObjects({KA, KB}, {Num(2), Ref(1), Ref(2)}, 1)
    /\ args = <<>>
    /\ op = "idle"
    /\ res = <<>>
    /\ CryptoIdle
    /\ OthersIdle

KeyLists == {<<KA>>, <<KB, KA>>}

HeapMerge ==
    /\ op = "idle"
    /\ \E configs \in SeqsUpTo({3, 4}, 2) :
          LET m == HMerge(heap, configs)
          IN heap' = m.h /\ res' = m.r /\ args' = configs
    /\ op' = "merge"
    /\ UNCHANGED cryptoVars
    /\ UNCHANGED <<envVars, cacheVars>>

HeapPick ==
    /\ op = "idle"
    /\ \E config \in {3, 4}, keys \in KeyLists :
          LET m == HPick(heap, config, keys)
          IN heap' = m.h /\ res' = m.r /\ args' = <<config, keys>>
    /\ op' = "pick"
    /\ UNCHANGED cryptoVars
    /\ UNCHANGED <<envVars, cacheVars>>

HeapOmit ==
    /\ op = "idle"
    /\ \E config \in {3, 4}, keys \in KeyLists :
          LET m == HOmit(heap, config, keys)
          IN heap' = m.h /\ res' = m.r /\ args' = <<config, keys>>
    /\ op' = "omit"
    /\ UNCHANGED cryptoVars
    /\ UNCHANGED <<envVars, cacheVars>>

HeapFlatten ==
    /\ op = "idle"
    /\ \E config \in {3, 4} :
          LET m == HFlatten(heap, config, <<>>, Dot)
          IN heap' = m.h /\ res' = m.r /\ args' = <<config, Dot>>
    /\ op' = "flatten"
    /\ UNCHANGED cryptoVars
    /\ UNCHANGED <<envVars, cacheVars>>

\* res is the result, or 0 when the call threw
HeapUnflatten ==
    /\ op = "idle"
    /\ \E config \in {3, 4} :
          LET m == HUnflatten(heap, config, Dot)
          IN /\ heap' = m.h
             /\ res' = IF m.threw THEN 0 ELSE m.r
             /\ args' = <<config, Dot>>
    /\ op' = "unflatten"
    /\ UNCHANGED cryptoVars
    /\ UNCHANGED <<envVars, cacheVars>>

\* diff only reads its arguments and fills arrays of its own
HeapDiff ==
    /\ op = "idle"
    /\ res' = Diff(Deref(heap, 3), Deref(heap, 4))
    /\ args' = <<3, 4>>
    /\ op' = "diff"
    /\ UNCHANGED <<heap, cryptoVars>>
    /\ UNCHANGED <<envVars, cacheVars>>

NextHeap ==
    HeapMerge \/ HeapPick \/ HeapOmit \/ HeapFlatten \/ HeapUnflatten \/ HeapDiff

SpecHeap == InitHeap /\ [][NextHeap]_vars

\* C6 (as claimed): no call of merge, diff, pick, omit, flatten or unflatten
\* changes an object that existed before the call, at any depth, and merge
\* returns an object created by the call.
MergerLeavesInputsUnchanged ==
    [][ /\ \A r \in DOMAIN heap : heap'[r] = heap[r]
        /\ op' = "merge" => (res' \notin DOMAIN heap /\ res' \in DOMAIN heap') ]_vars

\* what the code does: every call but unflatten leaves the objects that
\* existed before it unchanged, and merge returns a new object
AllButUnflattenLeaveInputsUnchanged ==
    [][ /\ op' # "unflatten" => \A r \in DOMAIN heap : heap'[r] = heap[r]
        /\ op' = "merge" => (res' \notin DOMAIN heap /\ res' \in DOMAIN heap') ]_vars

-----------------------------------------------------------------------------
(* CryptoManager.  A string is a sequence of UTF-16 code units U(c); the     *)
(* base64 text of a buffer is one unit B64(bytes).  A byte is a tagged       *)
(* tuple.  AES-256-GCM is ideal: a ciphertext byte decrypts to its plaintext *)
(* byte under the key, IV and position it was made with and to junk          *)
(* otherwise, and a tag verifies only for the key, IV and ciphertext it was  *)
(* computed over.                                                            *)

ivLength == 16
tagLength == 16
prefixLength == 10

U(c) == <<"u", c>>

\* 'encrypted:'
EncPrefix == <<U("e"), U("n"), U("c"), U("r"), U("y"), U("p"), U("t"), U("e"), U("d"), U(":")>>

NoKey == <<"nokey">>

\* scryptSync(passphrase, 'ldesign-env-salt', keyLength)
Scrypt(passphrase) == <<"scrypt", passphrase, "ldesign-env-salt">>

Byte(b) == <<"b", b>>          \* a byte of text

\* the base64 text of a byte sequence, as one unit of a string
B64(bytes) == <<"b64", bytes>>
Junk == <<"junk", 0>>          \* a byte of a wrongly decrypted ciphertext

\* what a thrown Error leaves the caller with
Throw(message, cause) == <<"throw", message, cause>>
Returned(value) == <<"return", value>>

\* a manager that answers the empty string when it has no key
KeyNotSetSilent == Returned(<<>>)

\* throw new Error('key not set, call setKey() first')
KeyNotSet == Throw("key not set", "")
EncryptFailed(cause) == Throw("encrypt failed", cause)
DecryptFailed(cause) == Throw("decrypt failed", cause)

\* cipher.update(plaintext, 'utf8'): the UTF-8 bytes of a string.  An ASCII
\* character is one byte, a surrogate pair is one four-byte sequence, and an
\* unpaired surrogate is encoded as U+FFFD.  The base64 text of a buffer is
\* ASCII: its bytes are kept as one unit.
RECURSIVE Utf8Encode(_)
Utf8Encode(str) ==
    IF str = <<>> THEN <<>>
    ELSE IF str[1][1] = "b64"
         THEN <<<<"b64bytes", str[1][2]>>>> \o Utf8Encode(Tail(str))
    ELSE IF str[1] = U("H") /\ Len(str) >= 2 /\ str[2] = U("L")
         THEN <<Byte("F0"), Byte("9F"), Byte("98"), Byte("80")>>
              \o Utf8Encode(SubSeq(str, 3, Len(str)))
    ELSE IF str[1] \in {U("H"), U("L"), U("R")}
         THEN <<Byte("EF"), Byte("BF"), Byte("BD")>> \o Utf8Encode(Tail(str))
    ELSE <<Byte(str[1][2])>> \o Utf8Encode(Tail(str))

\* the bytes that are part of a multi-byte sequence
NonAscii == {"F0", "9F", "98", "80", "EF", "BF", "BD"}

\* buffer.toString('utf8'): an invalid byte decodes to U+FFFD
RECURSIVE Utf8Decode(_)
Utf8Decode(bytes) ==
    IF bytes = <<>> THEN <<>>
    ELSE IF bytes[1][1] = "b64bytes"
         THEN <<B64(bytes[1][2])>> \o Utf8Decode(Tail(bytes))
    ELSE IF Len(bytes) >= 4
            /\ SubSeq(bytes, 1, 4) = <<Byte("F0"), Byte("9F"), Byte("98"), Byte("80")>>
         THEN <<U("H"), U("L")>> \o Utf8Decode(SubSeq(bytes, 5, Len(bytes)))
    ELSE IF Len(bytes) >= 3
            /\ SubSeq(bytes, 1, 3) = <<Byte("EF"), Byte("BF"), Byte("BD")>>
         THEN <<U("R")>> \o Utf8Decode(SubSeq(bytes, 4, Len(bytes)))
    ELSE IF bytes[1][1] = "b" /\ bytes[1][2] \notin NonAscii
         THEN <<U(bytes[1][2])>> \o Utf8Decode(Tail(bytes))
    ELSE <<U("R")>> \o Utf8Decode(Tail(bytes))

\* a generator that gives the same bytes at every call
RandomIvFixed(n) == [i \in 1..ivLength |-> <<"iv", 1, i>>]

\* crypto.randomBytes(ivLength): the n-th value the generator can give
RandomIv(n) == [i \in 1..ivLength |-> <<"iv", n, i>>]

\* The IV a cipher is created with, written short: a value of randomBytes
\* by its number, any other byte sequence by itself.
IvName(iv) ==
    IF Len(iv) = ivLength /\ iv[1][1] = "iv" /\ iv = RandomIv(iv[1][2])
    THEN <<"random", iv[1][2]>>
    ELSE <<"other", iv>>

\* AES-256-GCM encryption of a byte sequence (update + final)
GcmEncrypt(k, iv, bytes) ==
    [i \in 1..Len(bytes) |-> <<"ct", k, IvName(iv), i, bytes[i]>>]

\* cipher.getAuthTag(): tagLength bytes, the first of which carries what the
\* tag authenticates
GcmTag(k, iv, encrypted) ==
    [i \in 1..tagLength |->
        IF i = 1 THEN <<"tag", i, k, IvName(iv), encrypted>> ELSE <<"tag", i>>]

\* AES-256-GCM decryption of a byte sequence
GcmDecrypt(k, iv, encrypted) ==
    [i \in 1..Len(encrypted) |->
        LET c == encrypted[i]
        IN IF c[1] = "ct" /\ c[2] = k /\ c[3] = IvName(iv) /\ c[4] = i
           THEN c[5] ELSE Junk]

\* a final() that accepts every tag
GcmVerifyAlways(k, iv, encrypted, authTag) == TRUE

\* decipher.final(): whether the tag set with setAuthTag authenticates
GcmVerify(k, iv, encrypted, authTag) == authTag = GcmTag(k, iv, encrypted)

\* buffer.toString('hex') and Buffer.from(text, 'hex')
HexEncode(bytes) == <<"hex", bytes>>
HexDecode(text) == text[2]

\* buffer.toString('base64')
Base64Encode(bytes) == <<B64(bytes)>>

\* Buffer.from(text, 'base64'): the bytes of a base64 text; characters that
\* are no base64 text decode to nothing
Base64Decode(text) ==
    IF Len(text) = 1 /\ text[1][1] = "b64" THEN text[1][2] ELSE <<>>

\* buffer.subarray(start, end), offsets counted from 0, end exclusive and
\* clamped to the length
Subarray(bytes, start, end) ==
    SubSeq(bytes, start + 1, IF end < Len(bytes) THEN end ELSE Len(bytes))

StartsWith(str, prefix) ==
    Len(str) >= Len(prefix) /\ SubSeq(str, 1, Len(prefix)) = prefix

\* str.slice(n)
Slice(str, n) == SubSeq(str, n + 1, Len(str))

\* a decrypt that never removes the prefix
StripPrefixNever(ciphertext) == ciphertext

\* ciphertext.startsWith('encrypted:') ? ciphertext.slice(10) : ciphertext
StripPrefix(ciphertext) ==
    IF StartsWith(ciphertext, EncPrefix) THEN Slice(ciphertext, prefixLength) ELSE ciphertext

\* CryptoManager.encrypt with the IV that randomBytes gave
Encrypt(k, iv, plaintext) ==
    IF k = NoKey THEN KeyNotSet
    ELSE LET encrypted    == HexEncode(GcmEncrypt(k, iv, Utf8Encode(plaintext)))
             authTag      == GcmTag(k, iv, HexDecode(encrypted))
             encryptedBuf == HexDecode(encrypted)
             combined     == iv \o authTag \o encryptedBuf
         IN Returned(EncPrefix \o Base64Encode(combined))

\* CryptoManager.decrypt.  createDecipheriv rejects an empty IV, and a tag
\* cut short is taken as rejected by setAuthTag; every error is caught and
\* rethrown as the one decrypt error.
Decrypt(k, ciphertext) ==
    IF k = NoKey THEN KeyNotSet
    ELSE LET text      == StripPrefix(ciphertext)
             combined  == Base64Decode(text)
             iv        == Subarray(combined, 0, ivLength)
             authTag   == Subarray(combined, ivLength, ivLength + tagLength)
             encrypted == Subarray(combined, ivLength + tagLength, Len(combined))
         IN IF Len(iv) = 0 \/ Len(authTag) # tagLength
            THEN DecryptFailed("invalid iv or tag")
            ELSE IF ~GcmVerify(k, iv, encrypted, authTag)
            THEN DecryptFailed("unable to authenticate data")
            ELSE Returned(Utf8Decode(GcmDecrypt(k, iv, encrypted)))

\* CryptoManager.isEncrypted
IsEncrypted(value) == StartsWith(value, EncPrefix)

-----------------------------------------------------------------------------
(* SpecCrypto: one CryptoManager shared by callers that set the key, encrypt, *)
(* hand the value around (with or without its prefix, possibly with a byte   *)
(* changed) and decrypt, in any order                                        *)

MaxTextLen == 2     \* longest plaintext, in code units
MaxIv == 2          \* number of values randomBytes can give

Passphrases == {"k1", "k2"}

\* "a" is a character of one unit, "H" and "L" a high and a low surrogate
Plaintexts == SeqsUpTo({U("a"), U("H"), U("L")}, MaxTextLen)

\* new CryptoManager(options): setKey runs iff options.key is given
InitCrypto ==
    /\ cryptoKey \in {NoKey} \cup {Scrypt(p) : p \in Passphrases}
    /\ box = <<>>
    /\ sent = <<>>
    /\ altered = FALSE
    /\ step = "new"
    /\ out = <<>>
    /\ MergerIdle
    /\ OthersIdle

\* CryptoManager.setKey
SetKey ==
    /\ \E p \in Passphrases : cryptoKey' = Scrypt(p)
    /\ step' = "setKey"
    /\ out' = <<>>
    /\ UNCHANGED <<box, sent, altered, mergerVars>>
    /\ UNCHANGED <<envVars, cacheVars>>

\* box = crypto.encrypt(plaintext); one value is followed at a time
DoEncrypt ==
    /\ sent = <<>>
    /\ \E plaintext \in Plaintexts, n \in 1..MaxIv :
          LET r == Encrypt(cryptoKey, RandomIv(n), plaintext)
          IN /\ out' = r
             /\ IF r[1] = "return"
                THEN /\ box' = r[2]
                     /\ sent' = <<[text |-> plaintext, key |-> cryptoKey, iv |-> n]>>
                     /\ altered' = FALSE
                ELSE UNCHANGED <<box, sent, altered>>
    /\ step' = "encrypt"
    /\ UNCHANGED <<cryptoKey, mergerVars>>
    /\ UNCHANGED <<envVars, cacheVars>>

\* the caller keeps the value without its prefix
DropPrefix ==
    /\ StartsWith(box, EncPrefix)
    /\ box' = Slice(box, prefixLength)
    /\ step' = "dropPrefix"
    /\ out' = <<>>
    /\ UNCHANGED <<cryptoKey, sent, altered, mergerVars>>
    /\ UNCHANGED <<envVars, cacheVars>>

\* one byte of the IV, the tag or the ciphertext of box is changed
Tamper ==
    /\ Len(sent) = 1 /\ ~altered
    /\ LET bytes == Base64Decode(StripPrefix(box))
       IN \E pos \in 1..Len(bytes) :
             LET changed == [bytes EXCEPT ![pos] = <<"flip", @>>]
             IN box' = IF StartsWith(box, EncPrefix)
                       THEN EncPrefix \o Base64Encode(changed)
                       ELSE Base64Encode(changed)
    /\ altered' = TRUE
    /\ step' = "tamper"
    /\ out' = <<>>
    /\ UNCHANGED <<cryptoKey, sent, mergerVars>>
    /\ UNCHANGED <<envVars, cacheVars>>

\* crypto.decrypt(box)
DoDecrypt ==
    /\ out' = Decrypt(cryptoKey, box)
    /\ step' = "decrypt"
    /\ UNCHANGED <<cryptoKey, box, sent, altered, mergerVars>>
    /\ UNCHANGED <<envVars, cacheVars>>

\* crypto.encrypt(plaintext) called a second time with the plaintext of the
\* first call.  randomBytes is a cryptographic generator: it does not give
\* the 16 bytes of the first call again.
DoEncryptAgain ==
    /\ Len(sent) = 1
    /\ \E n \in (1..MaxIv) \ {sent[1].iv} :
          out' = Encrypt(cryptoKey, RandomIv(n), sent[1].text)
    /\ step' = "encryptAgain"
    /\ UNCHANGED <<cryptoKey, box, sent, altered, mergerVars>>
    /\ UNCHANGED <<envVars, cacheVars>>

NextCrypto == SetKey \/ DoEncrypt \/ DoEncryptAgain \/ DropPrefix \/ Tamper \/ DoDecrypt

SpecCrypto == InitCrypto /\ [][NextCrypto]_vars

\* box is what encrypt returned, unchanged, and the key is the one it used
SameKeyUntouched ==
    /\ step = "decrypt"
    /\ Len(sent) = 1
    /\ ~altered
    /\ cryptoKey = sent[1].key

\* C9 (as claimed): decrypt(encrypt(x)) returns x for every string x, with or
\* without the prefix, when the key is the one encrypt used.
RoundTripEveryString ==
    SameKeyUntouched => out = Returned(sent[1].text)

\* a string in which every surrogate is half of a pair
RECURSIVE WellFormed(_)
WellFormed(str) ==
    IF str = <<>> THEN TRUE
    ELSE IF str[1] = U("H")
         THEN Len(str) >= 2 /\ str[2] = U("L") /\ WellFormed(SubSeq(str, 3, Len(str)))
    ELSE str[1] # U("L") /\ WellFormed(Tail(str))

\* C9 (amended): decrypt(encrypt(x)) returns x for every well-formed string
\* x (no unpaired surrogate), with or without the prefix, when the key is the
\* one encrypt used; an unpaired surrogate comes back as U+FFFD.
RoundTripWellFormed ==
    SameKeyUntouched =>
        /\ WellFormed(sent[1].text) => out = Returned(sent[1].text)
        /\ out = Returned(Utf8Decode(Utf8Encode(sent[1].text)))

\* a surrogate pair encrypted, the prefix dropped, the key set again to the
\* same passphrase, and decrypted
RoundTripWellFormedWitness ==
    /\ SameKeyUntouched
    /\ sent[1].text = <<U("H"), U("L")>>
    /\ ~StartsWith(box, EncPrefix)
    /\ out = Returned(<<U("H"), U("L")>>)

\* C10: decrypt of a value encrypt returned fails, with the one decrypt
\* error, when a byte of its IV, tag or ciphertext was changed or when the
\* key is not the key encrypt used; it returns no string then.
TamperOrWrongKeyFails ==
    (step = "decrypt" /\ Len(sent) = 1 /\ (altered \/ cryptoKey # sent[1].key))
        => out = DecryptFailed("unable to authenticate data")

\* setKey with another passphrase ran between encrypt and decrypt
TamperOrWrongKeyFailsWitness ==
    /\ step = "decrypt" /\ Len(sent) = 1
    /\ ~altered /\ cryptoKey # sent[1].key
    /\ out[1] = "throw"

\* C11: encrypt or decrypt on a manager whose key was never set throws, gives
\* the caller no value and leaves the key unset; once setKey has run encrypt
\* returns a value and decrypt no longer fails for lack of a key.
NoKeyFailsImmediately ==
    [][ /\ (cryptoKey = NoKey /\ step' \in {"encrypt", "encryptAgain", "decrypt"})
            => /\ out'[1] = "throw" /\ out'[2] = "key not set"
               /\ cryptoKey' = NoKey
               /\ box' = box /\ sent' = sent
        /\ (cryptoKey # NoKey /\ step' \in {"encrypt", "encryptAgain"})
            => out'[1] = "return"
        /\ (cryptoKey # NoKey /\ step' = "decrypt")
            => ~(out'[1] = "throw" /\ out'[2] = "key not set") ]_vars

\* encrypt was called on a manager constructed without a key
NoKeyFailsImmediatelyWitness ==
    /\ step = "encrypt"
    /\ cryptoKey = NoKey
    /\ out[1] = "throw"
    /\ box = <<>>

\* the bytes inside a value encrypt returned
Combined(value) == Base64Decode(Slice(value, prefixLength))

\* the value has the form "encrypted:" + base64(IV (16) | tag (16) | ciphertext)
\* for the plaintext and key given
HasEnvelopeForm(value, k, plaintext) ==
    /\ StartsWith(value, EncPrefix)
    /\ IsEncrypted(value)
    /\ Len(value) = prefixLength + 1
    /\ value[prefixLength + 1][1] = "b64"
    /\ LET combined  == Combined(value)
           iv        == Subarray(combined, 0, ivLength)
           authTag   == Subarray(combined, ivLength, ivLength + tagLength)
           encrypted == Subarray(combined, ivLength + tagLength, Len(combined))
       IN /\ Len(combined) = ivLength + tagLength + Len(Utf8Encode(plaintext))
          /\ \E n \in 1..MaxIv : iv = RandomIv(n)
          /\ authTag = GcmTag(k, iv, encrypted)
          /\ encrypted = GcmEncrypt(k, iv, Utf8Encode(plaintext))

\* the second of two encrypt calls with one plaintext and one key returned,
\* and the caller still holds the value of the first
EncryptedTwice ==
    /\ step = "encryptAgain"
    /\ out[1] = "return"
    /\ cryptoKey = sent[1].key
    /\ ~altered

\* the value of the first call, with its prefix
FirstValue == IF StartsWith(box, EncPrefix) THEN box ELSE EncPrefix \o box

\* what C12 says of every value encrypt returns and of the IVs and values of
\* two calls
EnvelopeAndFreshIv ==
    /\ (step \in {"encrypt", "encryptAgain"} /\ out[1] = "return")
           => HasEnvelopeForm(out[2], cryptoKey, sent[1].text)
    /\ EncryptedTwice
           => /\ Subarray(Combined(out[2]), 0, ivLength)
                     # Subarray(Combined(FirstValue), 0, ivLength)
              /\ out[2] # FirstValue

\* C12 (as claimed): every value encrypt returns is "encrypted:" followed by
\* the base64 of IV, tag and ciphertext and satisfies isEncrypted; two encrypt
\* calls with one plaintext and one key use distinct IVs, return different
\* strings, and both values decrypt to the plaintext, for every plaintext.
EncryptFormatAndDistinctIv ==
    /\ EnvelopeAndFreshIv
    /\ EncryptedTwice
           => /\ Decrypt(cryptoKey, out[2]) = Returned(sent[1].text)
              /\ Decrypt(cryptoKey, box) = Returned(sent[1].text)

\* C12 (amended): the same, but both values decrypt to the plaintext when it
\* is well formed, and to the plaintext with U+FFFD for each unpaired
\* surrogate otherwise (the round trip of C9).
EncryptFormatAndDistinctIvWellFormed ==
    /\ EnvelopeAndFreshIv
    /\ EncryptedTwice
           => LET back == Returned(Utf8Decode(Utf8Encode(sent[1].text)))
              IN /\ Decrypt(cryptoKey, out[2]) = back
                 /\ Decrypt(cryptoKey, box) = back
                 /\ WellFormed(sent[1].text) => back = Returned(sent[1].text)

\* "a" encrypted twice under one key
EncryptFormatAndDistinctIvWitness ==
    /\ EncryptedTwice
    /\ sent[1].text = <<U("a")>>
    /\ out[2] # FirstValue
    /\ Decrypt(cryptoKey, out[2]) = Returned(<<U("a")>>)

-----------------------------------------------------------------------------
(* CryptoManager over objects: encryptFields, decryptFields and autoDecrypt. *)
(* The objects live in heap, as for the ConfigMerger; a field holds a cell   *)
(* Str(string) or Num(n).  [h |-> the heap afterwards, r |-> what the call   *)
(* returned or threw].                                                       *)

\* an isEncrypted that recognises no value
HIsEncryptedNever(cell) == FALSE

\* isEncrypted(value) of a cell: typeof value === 'string' && startsWith
HIsEncrypted(cell) == TypeOf(cell) = "string" /\ IsEncrypted(cell[2])

\* the loop of encryptFields; ivs are the values randomBytes gives, in order
RECURSIVE HEncryptFieldsLoop(_, _, _, _, _)
HEncryptFieldsLoop(h, k, result, fields, ivs) ==
    IF fields = <<>> THEN [h |-> h, r |-> Returned(Ref(result))]
    ELSE LET field == Head(fields)
         IN IF HHas(h, result, field) /\ TypeOf(HGet(h, result, field)) = "string"
            THEN LET e == Encrypt(k, RandomIv(Head(ivs)), HGet(h, result, field)[2])
                 IN IF e[1] = "throw" THEN [h |-> h, r |-> e]
                    ELSE HEncryptFieldsLoop(HSet(h, result, field, Str(e[2])),
                                            k, result, Tail(fields), Tail(ivs))
            ELSE HEncryptFieldsLoop(h, k, result, Tail(fields), ivs)

\* an encryptFields that writes into obj itself
HEncryptFieldsInPlace(h, k, obj, fields, ivs) ==
    HEncryptFieldsLoop(h, k, obj, fields, ivs)

\* CryptoManager.encryptFields
HEncryptFields(h, k, obj, fields, ivs) ==
    LET h1 == HCopy(h, obj) IN HEncryptFieldsLoop(h1, k, Len(h1), fields, ivs)

RECURSIVE HDecryptFieldsLoop(_, _, _, _)
HDecryptFieldsLoop(h, k, result, fields) ==
    IF fields = <<>> THEN [h |-> h, r |-> Returned(Ref(result))]
    ELSE LET field == Head(fields)
         IN IF HHas(h, result, field) /\ HIsEncrypted(HGet(h, result, field))
            THEN LET d == Decrypt(k, HGet(h, result, field)[2])
                 IN IF d[1] = "throw" THEN [h |-> h, r |-> d]
                    ELSE HDecryptFieldsLoop(HSet(h, result, field, Str(d[2])),
                                            k, result, Tail(fields))
            ELSE HDecryptFieldsLoop(h, k, result, Tail(fields))

\* CryptoManager.decryptFields
HDecryptFields(h, k, obj, fields) ==
    LET h1 == HCopy(h, obj) IN HDecryptFieldsLoop(h1, k, Len(h1), fields)

\* an autoDecrypt without the try / catch around decrypt
RECURSIVE HAutoDecryptLoopNoCatch(_, _, _, _)
HAutoDecryptLoopNoCatch(h, k, result, entries) ==
    IF entries = <<>> THEN [h |-> h, r |-> Returned(Ref(result))]
    ELSE LET key   == Head(entries)
             value == HGet(h, result, key)
         IN IF TypeOf(value) = "string" /\ HIsEncrypted(value)
            THEN LET d == Decrypt(k, value[2])
                 IN IF d[1] = "throw" THEN [h |-> h, r |-> d]
                    ELSE HAutoDecryptLoopNoCatch(HSet(h, result, key, Str(d[2])),
                                                 k, result, Tail(entries))
            ELSE HAutoDecryptLoopNoCatch(h, k, result, Tail(entries))

\* the loop of autoDecrypt over Object.entries(result); a decrypt that throws
\* is caught and the field keeps its value
RECURSIVE HAutoDecryptLoop(_, _, _, _)
HAutoDecryptLoop(h, k, result, entries) ==
    IF entries = <<>> THEN [h |-> h, r |-> Returned(Ref(result))]
    ELSE LET key   == Head(entries)
             value == HGet(h, result, key)
         IN IF TypeOf(value) = "string" /\ HIsEncrypted(value)
            THEN LET d == Decrypt(k, value[2])
                 IN IF d[1] = "throw"
                    THEN HAutoDecryptLoop(h, k, result, Tail(entries))
                    ELSE HAutoDecryptLoop(HSet(h, result, key, Str(d[2])),
                                          k, result, Tail(entries))
            ELSE HAutoDecryptLoop(h, k, result, Tail(entries))

\* CryptoManager.autoDecrypt
HAutoDecrypt(h, k, obj) ==
    LET h1 == HCopy(h, obj) IN HAutoDecryptLoop(h1, k, Len(h1), h1[Len(h1)].keys)

-----------------------------------------------------------------------------
(* SpecFields: an object is given to encryptFields (or not), and the object  *)
(* or the copy encryptFields returned is given to decryptFields or to        *)
(* autoDecrypt, which ends the run; setKey may run at any time before        *)

MaxFields == 2      \* longest list of field names

\* field values: a string, a string with an unpaired surrogate, a number, the
\* string encrypted earlier (with an IV drawn then) under a passphrase, and a
\* corrupted secret
PlainA == Str(<<U("a")>>)
Lone == Str(<<U("H")>>)
Secret(p) == Str(Encrypt(Scrypt(p), RandomIv(0), <<U("a")>>)[2])
Corrupt == Str(EncPrefix \o <<U("a")>>)

FieldVals == {PlainA, Lone, Num(1), Corrupt, Secret("k1")}

FieldObjects == HeapObjects({KA, KB}, FieldVals, MaxKeys)

FieldLists == SeqsUpTo({KA, KB}, MaxFields)

\* the values randomBytes gives during one encryptFields, named by the order
\* of the calls: no two are the same
Draws == [i \in 1..MaxFields |-> i]

InitFields ==
    /\ OthersIdle
    /\ heap \in {<<o>> : o \in FieldObjects}
    /\ cryptoKey \in {NoKey} \cup {Scrypt(p) : p \in Passphrases}
    /\ args = <<>>
    /\ op = "idle"
    /\ res = <<>>
    /\ box = <<>>
    /\ sent = <<>>
    /\ altered = FALSE
    /\ step = "new"
    /\ out = <<>>

\* the objects the caller can pass: the one it started with and the one the
\* last call returned
Held == {1} \cup (IF res # <<>> /\ res[1] = "return" THEN {res[2][2]} ELSE {})

\* crypto.encryptFields(obj, fields)
DoEncryptFields ==
    /\ op = "idle"
    /\ \E fields \in FieldLists :
          /\ LET m == HEncryptFields(heap, cryptoKey, 1, fields, Draws)
             IN /\ heap' = m.h
                /\ res' = m.r
                /\ args' = <<Ref(1), fields>>
                /\ sent' = IF m.r[1] = "return"
                           THEN <<[obj |-> 1, fields |-> fields, key |-> cryptoKey,
                                   made |-> m.r[2][2]]>>
                           ELSE sent
    /\ op' = "encryptFields"
    /\ UNCHANGED <<cryptoKey, box, altered, step, out>>
    /\ UNCHANGED <<envVars, cacheVars>>

\* crypto.decryptFields(obj, fields)
DoDecryptFields ==
    /\ op \in {"idle", "encryptFields"}
    /\ \E obj \in Held, fields \in FieldLists :
          LET m == HDecryptFields(heap, cryptoKey, obj, fields)
          IN /\ heap' = m.h
             /\ res' = m.r
             /\ args' = <<Ref(obj), fields>>
    /\ op' = "decryptFields"
    /\ UNCHANGED <<cryptoKey, box, sent, altered, step, out>>
    /\ UNCHANGED <<envVars, cacheVars>>

\* crypto.autoDecrypt(obj)
DoAutoDecrypt ==
    /\ op \in {"idle", "encryptFields"}
    /\ \E obj \in Held :
          LET m == HAutoDecrypt(heap, cryptoKey, obj)
          IN /\ heap' = m.h
             /\ res' = m.r
             /\ args' = <<Ref(obj)>>
    /\ op' = "autoDecrypt"
    /\ UNCHANGED <<cryptoKey, box, sent, altered, step, out>>
    /\ UNCHANGED <<envVars, cacheVars>>

NextFields ==
    \/ (op \in {"idle", "encryptFields"} /\ SetKey)
    \/ DoEncryptFields
    \/ DoDecryptFields
    \/ DoAutoDecrypt

SpecFields == InitFields /\ [][NextFields]_vars

\* C13: encryptFields and decryptFields leave obj (and every object that
\* existed) unchanged and return a new object with the keys of obj; in it a
\* field differs from the field of obj iff it is listed and, for
\* encryptFields, holds a string in obj (it then holds an encrypted value),
\* for decryptFields, holds a value that satisfies isEncrypted in obj.
FieldsFrame ==
    [][ (op' # op /\ op' \in {"encryptFields", "decryptFields"}) =>
          /\ \A r \in DOMAIN heap : heap'[r] = heap[r]
          /\ res'[1] = "return" =>
               /\ res'[2][2] \notin DOMAIN heap
               /\ LET o == heap[args'[1][2]]
                      c == heap'[res'[2][2]]
                      listed == Range(args'[2])
                  IN /\ c.keys = o.keys
                     /\ DOMAIN c.val = DOMAIN o.val
                     /\ \A f \in DOMAIN o.val :
                           IF op' = "encryptFields"
                           THEN /\ (c.val[f] # o.val[f])
                                      <=> (f \in listed /\ TypeOf(o.val[f]) = "string")
                                /\ c.val[f] # o.val[f] => HIsEncrypted(c.val[f])
                           ELSE (c.val[f] # o.val[f])
                                      <=> (f \in listed /\ HIsEncrypted(o.val[f])) ]_vars

\* encryptFields on an object with a listed string, a listed number and an
\* unlisted string
FieldsFrameWitness ==
    /\ op = "encryptFields"
    /\ res[1] = "return"
    /\ heap[1].val = (KA :> PlainA) @@ (KB :> Num(1))
    /\ args[2] = <<KB, KA>>
    /\ heap[res[2][2]].val[KB] = Num(1)
    /\ HIsEncrypted(heap[res[2][2]].val[KA])

\* what autoDecrypt has done, args being its argument and res its result
AutoDecryptOutcome ==
        /\ res[1] = "return"
        /\ LET o == heap[args[1][2]]
               c == heap[res[2][2]]
           IN /\ c.keys = o.keys
              /\ DOMAIN c.val = DOMAIN o.val
              /\ \A f \in DOMAIN o.val :
                   /\ c.val[f] =
                        IF HIsEncrypted(o.val[f]) /\ Decrypt(cryptoKey, o.val[f][2])[1] = "return"
                        THEN Str(Decrypt(cryptoKey, o.val[f][2])[2])
                        ELSE o.val[f]
                   /\ o.val[f] = Secret("k1") =>
                        c.val[f] = IF cryptoKey = Scrypt("k1") THEN PlainA ELSE Secret("k1")
                   /\ o.val[f] \in {Corrupt, PlainA, Lone, Num(1)} => c.val[f] = o.val[f]

\* C14: autoDecrypt returns (it never throws); in the object it returns a
\* field that satisfies isEncrypted and decrypts under the key holds the
\* plaintext, and every other field (not isEncrypted, encrypted under
\* another key, corrupted) holds what it held in obj.
AutoDecryptNeverThrows == op = "autoDecrypt" => AutoDecryptOutcome

\* a corrupted secret comes first and is kept, the secret after it is
\* decrypted
AutoDecryptNeverThrowsWitness ==
    /\ op = "autoDecrypt"
    /\ cryptoKey = Scrypt("k1")
    /\ args[1] = Ref(1)
    /\ heap[1].keys = <<KA, KB>>
    /\ heap[1].val = (KA :> Corrupt) @@ (KB :> Secret("k1"))
    /\ res[1] = "return"
    /\ heap[res[2][2]].val = (KA :> Corrupt) @@ (KB :> PlainA)

\* decryptFields with the list of encryptFields, or autoDecrypt, ran on the
\* object encryptFields returned, under the key encryptFields used, and no
\* value of the object given to encryptFields satisfies isEncrypted
RoundTripCase ==
    /\ op \in {"decryptFields", "autoDecrypt"}
    /\ Len(sent) = 1
    /\ args[1] = Ref(sent[1].made)
    /\ cryptoKey = sent[1].key
    /\ op = "decryptFields" => args[2] = sent[1].fields
    /\ \A f \in DOMAIN heap[1].val : ~HIsEncrypted(heap[1].val[f])

\* the call returned an object equal to the one given to encryptFields
GaveBack == res[1] = "return" /\ heap[res[2][2]] = heap[1]

\* C15 (as claimed): for every obj without encrypted values and every list F,
\* autoDecrypt(encryptFields(obj, F)) and decryptFields(encryptFields(obj, F),
\* F) are equal to obj.
SecretFieldRoundTrip == RoundTripCase => GaveBack

NoRepeats(fields) == \A i, j \in 1..Len(fields) : i # j => fields[i] # fields[j]

\* the listed string values of obj are well-formed strings
ListedWellFormed(o, fields) ==
    \A f \in Range(fields) \cap DOMAIN o.val :
        TypeOf(o.val[f]) = "string" => WellFormed(o.val[f][2])

\* C15 (amended): decryptFields(encryptFields(obj, F), F) is equal to obj when
\* the listed strings of obj are well formed, and autoDecrypt(encryptFields(
\* obj, F)) is equal to obj when moreover F names no field twice.
SecretFieldRoundTripNoRepeats ==
    (/\ RoundTripCase
     /\ ListedWellFormed(heap[1], sent[1].fields)
     /\ op = "autoDecrypt" => NoRepeats(sent[1].fields)) => GaveBack

\* {a: "a", b: 1} encrypted on ["a"] and auto-decrypted
SecretFieldRoundTripNoRepeatsWitness ==
    /\ RoundTripCase
    /\ op = "autoDecrypt"
    /\ sent[1].fields = <<KA>>
    /\ heap[1].val = (KA :> PlainA) @@ (KB :> Num(1))
    /\ HIsEncrypted(heap[sent[1].made].val[KA])
    /\ GaveBack

-----------------------------------------------------------------------------
(* SchemaValidator.  A FieldSpec is a record whose attributes are values;    *)
(* an attribute that is not given reads as undefined.  A string is a tuple   *)
(* of characters.  The schema object of the zod library is a tagged tuple,   *)
(* and parsing gives the list of the messages of its issues.                 *)

\* JavaScript truthiness of a value
Truthy(v) ==
    /\ v[1] \notin {"undefined", "null"}
    /\ v[1] = "boolean" => v[2]
    /\ v[1] = "number" => v[2] # 0
    /\ v[1] = "string" => v[2] # <<>>

\* new RegExp(pattern): the patterns are a literal text, anchored to both
\* ends (^text$) or not
RegExp(anchored, text) == <<"regexp", anchored, text>>

\* whether text occurs in str
Occurs(text, str) ==
    \E i \in 0..(Len(str) - Len(text)) : SubSeq(str, i + 1, i + Len(text)) = text

\* regexp.test(str)
Test(regexp, str) == IF regexp[2] THEN str = regexp[3] ELSE Occurs(regexp[3], str)

\* z.string().regex(...).min(...).max(...), z.enum(...), z.number().min(...).max(...),
\* z.boolean(), z.any()
ZString(checks) == <<"string", checks>>
ZEnum(values) == <<"enum", values>>
ZNumber(checks) == <<"number", checks>>
ZBoolean == <<"boolean", <<>>>>
ZAny == <<"any", <<>>>>
ZDefault(inner, d) == <<"default", inner, d>>
ZOptional(inner) == <<"optional", inner>>

\* a number check of zod that excludes the bound itself
TooSmallExclusive(v, bound) == v <= bound

\* .min(bound) of zod: the value may be equal to the bound
TooSmall(v, bound) == v < bound

\* .max(bound) of zod: the value may be equal to the bound
TooBig(v, bound) == v > bound

\* the messages of the checks of a string or number schema that x fails; zod
\* runs every check
RECURSIVE CheckIssues(_, _, _)
CheckIssues(kind, checks, x) ==
    IF checks = <<>> THEN <<>>
    ELSE LET c == Head(checks)
             size == IF kind = "string" THEN Len(x) ELSE x
             failed == IF c[1] = "regex" THEN ~Test(c[2], x)
                       ELSE IF c[1] = "min" THEN TooSmall(size, c[2])
                       ELSE TooBig(size, c[2])
         IN (IF failed THEN <<c[1]>> ELSE <<>>) \o CheckIssues(kind, Tail(checks), x)

\* schema.parse of one value: the messages of the issues
RECURSIVE ZParse(_, _)
ZParse(validator, x) ==
    IF validator[1] = "optional"
    THEN IF x = Undef THEN <<>> ELSE ZParse(validator[2], x)
    ELSE IF validator[1] = "default"
    THEN ZParse(validator[2], IF x = Undef THEN validator[3] ELSE x)
    ELSE IF validator[1] = "any" THEN <<>>
    ELSE IF validator[1] = "boolean"
    THEN IF TypeOf(x) = "boolean" THEN <<>> ELSE <<"invalid_type">>
    ELSE IF validator[1] = "enum"
    THEN IF TypeOf(x) # "string" THEN <<"invalid_type">>
         ELSE IF \E i \in 1..Len(validator[2]) : validator[2][i] = x
         THEN <<>> ELSE <<"invalid_enum_value">>
    ELSE IF TypeOf(x) # validator[1] THEN <<"invalid_type">>
    ELSE CheckIssues(validator[1], validator[2], x[2])

\* the validator buildZodSchema makes for the type of a field
TypeValidator(fieldSchema) ==
    IF fieldSchema.type = "string"
    THEN IF Truthy(fieldSchema.enum) THEN ZEnum(fieldSchema.enum[2])
         ELSE ZString(
                (IF Truthy(fieldSchema.pattern) THEN <<<<"regex", fieldSchema.pattern>>>> ELSE <<>>)
             \o (IF fieldSchema.minLength # Undef THEN <<<<"min", fieldSchema.minLength[2]>>>> ELSE <<>>)
             \o (IF fieldSchema.maxLength # Undef THEN <<<<"max", fieldSchema.maxLength[2]>>>> ELSE <<>>))
    ELSE IF fieldSchema.type = "number"
    THEN ZNumber(
                (IF fieldSchema.min # Undef THEN <<<<"min", fieldSchema.min[2]>>>> ELSE <<>>)
             \o (IF fieldSchema.max # Undef THEN <<<<"max", fieldSchema.max[2]>>>> ELSE <<>>))
    ELSE IF fieldSchema.type = "boolean" THEN ZBoolean
    ELSE ZAny

\* the validator of a field: optional fields and defaults
FieldValidator(fieldSchema) ==
    IF ~Truthy(fieldSchema.required)
    THEN IF fieldSchema.default # Undef
         THEN ZDefault(TypeValidator(fieldSchema), fieldSchema.default)
         ELSE ZOptional(TypeValidator(fieldSchema))
    ELSE TypeValidator(fieldSchema)

\* SchemaValidator.buildZodSchema: the shape given to z.object
BuildZodSchema(schema) == [fieldName \in DOMAIN schema |-> FieldValidator(schema[fieldName])]

\* a z.object(...).strict(): a key that is not in the shape is an issue
UnknownKeysStrict(shape, config) ==
    [i \in 1..Len(SeqOf(DOMAIN config \ DOMAIN shape)) |->
        [path |-> SeqOf(DOMAIN config \ DOMAIN shape)[i], message |-> "unrecognized_keys"]]

\* z.object(shape): the keys of the input that are not in the shape are
\* dropped without an issue
UnknownKeys(shape, config) == <<>>

\* the issues of the fields of the shape, in the order of the shape
RECURSIVE ShapeIssues(_, _, _)
ShapeIssues(shape, fieldNames, config) ==
    IF fieldNames = <<>> THEN <<>>
    ELSE LET fieldName == Head(fieldNames)
             messages == ZParse(shape[fieldName], Get(config, fieldName))
         IN [i \in 1..Len(messages) |-> [path |-> fieldName, message |-> messages[i]]]
            \o ShapeIssues(shape, Tail(fieldNames), config)

\* zodSchema.parse(config): the issues of the ZodError, none when it returns
ZObjectParse(shape, config) ==
    ShapeIssues(shape, SeqOf(DOMAIN shape), config) \o UnknownKeys(shape, config)

\* SchemaValidator.getNestedValue for the path of a field
GetNestedValue(config, fieldName) == Get(config, fieldName)

\* SchemaValidator.validate
Validate(schema, config) ==
    LET issues == ZObjectParse(BuildZodSchema(schema), config)
    IN IF issues = <<>> THEN [valid |-> TRUE, errors |-> <<>>]
       ELSE [valid |-> FALSE,
             errors |-> [i \in 1..Len(issues) |->
                            [field   |-> issues[i].path,
                             message |-> issues[i].message,
                             value   |-> GetNestedValue(config, issues[i].path)]]]

\* a property of a config whose getter throws when it is read
Getter == <<"getter", <<>>>>

\* a validate whose catch passes on an error that is no ZodError
Rethrown(message) == [thrown |-> message]

\* the catch of validate for an error that is no ZodError
CaughtUnknown(message) ==
    [valid |-> FALSE,
     errors |-> <<[field |-> <<"_unknown">>, message |-> message, value |-> Undef]>>]

\* SchemaValidator.validate for an input of any kind: what is no object is
\* one issue of z.object with the empty path; reading a field of the shape
\* through a getter that throws makes parse throw that error
ValidateInput(schema, input) ==
    IF input[1] # "object"
    THEN [valid |-> FALSE,
          errors |-> <<[field |-> <<>>, message |-> "invalid_type", value |-> Undef]>>]
    ELSE IF \E fieldName \in DOMAIN schema : Get(input[2], fieldName) = Getter
    THEN CaughtUnknown("getter")
    ELSE Validate(schema, input[2])

\* SchemaValidator.getSecretFields
GetSecretFields(schema) == SeqOf({fieldName \in DOMAIN schema : Truthy(schema[fieldName].secret)})

\* SchemaValidator.getDefaults
GetDefaults(schema) ==
    [fieldName \in {f \in DOMAIN schema : schema[f].default # Undef} |->
        schema[fieldName].default]

\* a validateField that returns every error of the temporary config
ErrorsOfAny(errors, fieldName) == errors

\* result.errors.filter(e => e.field === fieldName)
ErrorsOf(errors, fieldName) == SelectSeq(errors, LAMBDA e : e.field = fieldName)

\* the names every object inherits from Object.prototype, as constructor
KConstructor == <<"constructor">>
ObjectPrototype == {KConstructor}

\* this.schema[fieldName] is truthy: a field of the schema, or a name the
\* schema object inherits
SchemaHas(schema, fieldName) == fieldName \in DOMAIN schema \cup ObjectPrototype

\* SchemaValidator.validateField
ValidateField(schema, fieldName, value) ==
    IF ~SchemaHas(schema, fieldName)
    THEN [valid |-> FALSE,
          errors |-> <<[field |-> fieldName, message |-> "not in schema", value |-> value]>>]
    ELSE LET tempConfig == Assign(GetDefaults(schema), fieldName :> value)
             result == Validate(schema, tempConfig)
         IN [valid  |-> Len(ErrorsOf(result.errors, fieldName)) = 0,
             errors |-> ErrorsOf(result.errors, fieldName)]

\* a pattern that is no regular expression, as "("
BadPattern == <<"badpattern", <<"(">>>>

\* a RegExp that is compiled only when it is first tested
CompilesLazily(pattern) == TRUE

\* new RegExp(pattern) returns; otherwise it throws a SyntaxError
Compiles(pattern) == pattern[1] = "regexp"

\* new SchemaValidator(schema): buildZodSchema compiles the pattern of
\* every string field
Construct(schema) ==
    IF \E fieldName \in DOMAIN schema :
          /\ schema[fieldName].type = "string"
          /\ Truthy(schema[fieldName].pattern)
          /\ ~Compiles(schema[fieldName].pattern)
    THEN Throw("SyntaxError", "")
    ELSE Returned(BuildZodSchema(schema))

-----------------------------------------------------------------------------
(* SpecSchema: a validator is built from a schema over the fields a and b,   *)
(* and validate (then validate again with an undeclared key added),          *)
(* validateField or getDefaults is called, or validate with an input that is *)
(* no plain object of values; or another validator is constructed from a     *)
(* schema with an unknown type or a pattern that does not compile, and       *)
(* validate is called on it if the constructor returned                      *)

MaxNum == 3         \* the numbers of a config are 0..MaxNum

X == <<"x">>
XY == <<"x", "y">>
Y == <<"y">>

\* a FieldSpec of the given type with the attributes given in attrs
FieldSpec(type, attrs) ==
    [type      |-> type,
     required  |-> Get(attrs, "required"),
     default   |-> Get(attrs, "default"),
     pattern   |-> Get(attrs, "pattern"),
     minLength |-> Get(attrs, "minLength"),
     maxLength |-> Get(attrs, "maxLength"),
     min       |-> Get(attrs, "min"),
     max       |-> Get(attrs, "max"),
     enum      |-> Get(attrs, "enum"),
     secret    |-> Get(attrs, "secret")]

\* type and constraints, each with a default that satisfies them (undefined
\* when no value does)
Constraints ==
    { <<"number", EmptyObj, Num(1)>>,
      <<"number", ("min" :> Num(1)) @@ ("max" :> Num(2)), Num(1)>>,
      <<"number", ("min" :> Num(1)), Num(1)>>,
      <<"number", ("max" :> Num(2)), Num(1)>>,
      <<"number", ("min" :> Num(3)) @@ ("max" :> Num(1)), Undef>>,
      <<"string", EmptyObj, Str(X)>>,
      <<"string", ("pattern" :> RegExp(FALSE, X)), Str(X)>>,
      <<"string", ("pattern" :> RegExp(TRUE, X)), Str(X)>>,
      <<"string", ("minLength" :> Num(2)), Str(XY)>>,
      <<"string", ("maxLength" :> Num(1)), Str(X)>>,
      <<"string", ("enum" :> Arr(<<Str(X)>>)) @@ ("pattern" :> RegExp(FALSE, Y)), Str(X)>>,
      <<"boolean", EmptyObj, Bool(TRUE)>>,
      <<"json", EmptyObj, Num(1)>> }

\* the FieldSpecs of field a: every constraint, required or not, with or
\* without its default
FieldSpecsA ==
    UNION { { FieldSpec(c[1], c[2] @@ ("required" :> r) @@ ("default" :> d)) :
                r \in {Undef, Bool(TRUE)}, d \in {Undef, c[3]} } : c \in Constraints }

FieldSpecsB ==
    { FieldSpec("string", ("required" :> Bool(TRUE))),
      FieldSpec("json", ("required" :> Bool(TRUE))),
      FieldSpec("number", ("min" :> Num(1)) @@ ("max" :> Num(2))),
      FieldSpec("string", ("default" :> Str(X))) }

\* the objects with a field a from as or none, and a field b from bs or none
OptionalAB(as, bs) ==
    {EmptyObj} \cup {(KA :> a) : a \in as} \cup {(KB :> b) : b \in bs}
        \cup {(KA :> a) @@ (KB :> b) : a \in as, b \in bs}

Schemas == OptionalAB(FieldSpecsA, FieldSpecsB)

ValuesA == {Num(n) : n \in 0..MaxNum} \cup {Str(X), Str(XY), Str(Y), Bool(TRUE), Null}

ValuesB == {Num(1), Str(X)}

SchemaConfigs == OptionalAB(ValuesA, ValuesB)

\* new SchemaValidator(schema), and the config the caller holds
InitSchema ==
    /\ args \in {<<schema, config>> : schema \in Schemas, config \in SchemaConfigs}
    /\ op = "idle"
    /\ res = <<>>
    /\ heap = <<>>
    /\ CryptoIdle
    /\ OthersIdle

\* validator.validate(config)
DoValidate ==
    /\ op = "idle"
    /\ res' = <<Validate(args[1], args[2])>>
    /\ op' = "validate"
    /\ UNCHANGED <<args, heap, cryptoVars>>
    /\ UNCHANGED <<envVars, cacheVars>>

\* validator.validate({ ...config, c: value }), c being no field of the schema
DoValidateExtra ==
    /\ op = "validate"
    /\ \E value \in {Num(1), Str(X)} :
          LET extended == Assign(args[2], KC :> value)
          IN /\ args' = Append(args, extended)
             /\ res' = Append(res, Validate(args[1], extended))
    /\ op' = "validateExtra"
    /\ UNCHANGED <<heap, cryptoVars>>
    /\ UNCHANGED <<envVars, cacheVars>>

\* the names and the values validateField is called with
FieldNames == {KA, KB, KC, KConstructor}

FieldValues == ValuesA \cup {Undef, Obj(KA :> Num(1)), Arr(<<>>)}

\* validator.validateField(fieldName, value)
DoValidateField ==
    /\ op = "idle"
    /\ \E fieldName \in FieldNames, value \in FieldValues :
          /\ args' = <<args[1], args[2], fieldName, value>>
          /\ res' = <<ValidateField(args[1], fieldName, value)>>
    /\ op' = "validateField"
    /\ UNCHANGED <<heap, cryptoVars>>
    /\ UNCHANGED <<envVars, cacheVars>>

\* validator.getDefaults()
DoGetDefaults ==
    /\ op = "idle"
    /\ res' = <<GetDefaults(args[1])>>
    /\ op' = "getDefaults"
    /\ UNCHANGED <<args, heap, cryptoVars>>
    /\ UNCHANGED <<envVars, cacheVars>>

\* inputs of validate that are no plain object of values: null, a number, a
\* string, an array, and objects with a getter that throws
HostileInputs ==
    {Null, Num(1), Str(X), Arr(<<>>), Obj(KA :> Getter), Obj(KB :> Getter),
     Obj((KA :> Str(X)) @@ (KC :> Getter))}

\* validator.validate(input)
DoValidateHostile ==
    /\ op = "idle"
    /\ \E input \in HostileInputs :
          /\ args' = <<args[1], input>>
          /\ res' = <<ValidateInput(args[1], input)>>
    /\ op' = "validateHostile"
    /\ UNCHANGED <<heap, cryptoVars>>
    /\ UNCHANGED <<envVars, cacheVars>>

\* schemas with a type that is none of the four, or with a pattern that
\* does not compile, next to schemas without either
BuiltSchemas ==
    { (KA :> FieldSpec("integer", EmptyObj)),
      (KA :> FieldSpec("integer", ("required" :> Bool(TRUE)))),
      (KA :> FieldSpec("string", ("pattern" :> BadPattern))),
      (KA :> FieldSpec("string", ("pattern" :> BadPattern) @@ ("enum" :> Arr(<<Str(X)>>)))),
      (KA :> FieldSpec("number", ("pattern" :> BadPattern))),
      (KA :> FieldSpec("string", ("pattern" :> RegExp(FALSE, X))))
          @@ (KB :> FieldSpec("string", ("pattern" :> BadPattern))),
      (KA :> FieldSpec("string", ("pattern" :> RegExp(TRUE, X)))) }

\* new SchemaValidator(schema), in place of the validator held
DoConstruct ==
    /\ op = "idle"
    /\ \E schema \in BuiltSchemas :
          /\ args' = <<schema, args[2]>>
          /\ res' = <<Construct(schema)>>
    /\ op' = "construct"
    /\ UNCHANGED <<heap, cryptoVars>>
    /\ UNCHANGED <<envVars, cacheVars>>

\* validate(config) on the validator the constructor returned
DoValidateBuilt ==
    /\ op = "construct"
    /\ res[1][1] = "return"
    /\ res' = Append(res, Validate(args[1], args[2]))
    /\ op' = "validateBuilt"
    /\ UNCHANGED <<args, heap, cryptoVars>>
    /\ UNCHANGED <<envVars, cacheVars>>

NextSchema ==
    \/ DoValidate \/ DoValidateExtra \/ DoValidateField \/ DoGetDefaults
    \/ DoValidateHostile \/ DoConstruct \/ DoValidateBuilt

SpecSchema == InitSchema /\ [][NextSchema]_vars

\* the errors of a result that name the field
ErrorsFor(result, fieldName) == SelectSeq(result.errors, LAMBDA e : e.field = fieldName)

\* the field is absent from the config
IsAbsent(config, fieldName) == Get(config, fieldName) = Undef

\* The value of the field violates its FieldSpec, as the specification of the
\* validator defines it: required and absent; of another type than declared;
\* for a string, not in the enum when there is one, and otherwise not
\* matching the pattern, or shorter than minLength, or longer than maxLength;
\* for a number, below min or above max.  whole tells whether the pattern has
\* to match the whole string or any part of it.
Violates(fieldSchema, config, fieldName, whole) ==
    LET v == Get(config, fieldName)
    IN IF IsAbsent(config, fieldName) THEN Truthy(fieldSchema.required)
       ELSE IF fieldSchema.type = "json" THEN FALSE
       ELSE IF TypeOf(v) # fieldSchema.type THEN TRUE
       ELSE IF fieldSchema.type = "string"
       THEN IF fieldSchema.enum # Undef
            THEN \A i \in 1..Len(fieldSchema.enum[2]) : fieldSchema.enum[2][i] # v
            ELSE \/ /\ fieldSchema.pattern # Undef
                    /\ IF whole THEN v[2] # fieldSchema.pattern[3]
                       ELSE ~Test(fieldSchema.pattern, v[2])
                 \/ fieldSchema.minLength # Undef /\ Len(v[2]) < fieldSchema.minLength[2]
                 \/ fieldSchema.maxLength # Undef /\ Len(v[2]) > fieldSchema.maxLength[2]
       ELSE IF fieldSchema.type = "number"
       THEN \/ fieldSchema.min # Undef /\ v[2] < fieldSchema.min[2]
            \/ fieldSchema.max # Undef /\ v[2] > fieldSchema.max[2]
       ELSE FALSE

\* C16: validate reports an error, named after the field, for every declared
\* field whose value violates its FieldSpec (wrong type, pattern, length,
\* range, enum, or required and absent), however many fields violate; and
\* valid is true iff errors is empty.
ReportsEveryViolation ==
    op = "validate" =>
        /\ \A f \in DOMAIN args[1] :
              Violates(args[1][f], args[2], f, TRUE) => ErrorsFor(res[1], f) # <<>>
        /\ res[1].valid <=> res[1].errors = <<>>

\* what the code does: every violation is reported but the absence of a
\* required json field, a pattern being matched against any part of the
\* string
ReportsEveryViolationButJson ==
    op = "validate" =>
        /\ \A f \in DOMAIN args[1] :
              (Violates(args[1][f], args[2], f, FALSE)
                  /\ ~(args[1][f].type = "json" /\ IsAbsent(args[2], f)))
                => ErrorsFor(res[1], f) # <<>>
        /\ res[1].valid <=> res[1].errors = <<>>

\* C17: validate has an error for an absent declared field iff the field is
\* required, whether or not it has a default; getDefaults returns exactly
\* the fields whose default is defined, with their defaults.
RequiredDefaultResolution ==
    /\ op = "validate" =>
          \A f \in DOMAIN args[1] :
              IsAbsent(args[2], f) =>
                  (ErrorsFor(res[1], f) # <<>> <=> Truthy(args[1][f].required))
    /\ op = "getDefaults" =>
          /\ DOMAIN res[1] = {f \in DOMAIN args[1] : args[1][f].default # Undef}
          /\ \A f \in DOMAIN res[1] : res[1][f] = args[1][f].default

\* what the code does: an absent required field is reported unless its type
\* is json
RequiredDefaultResolutionButJson ==
    /\ op = "validate" =>
          \A f \in DOMAIN args[1] :
              IsAbsent(args[2], f) =>
                  (ErrorsFor(res[1], f) # <<>>
                      <=> (Truthy(args[1][f].required) /\ args[1][f].type # "json"))
    /\ op = "getDefaults" =>
          /\ DOMAIN res[1] = {f \in DOMAIN args[1] : args[1][f].default # Undef}
          /\ \A f \in DOMAIN res[1] : res[1][f] = args[1][f].default

\* C18: validate of a config with a key added that the schema does not
\* declare returns the valid flag and the errors of validate of the config.
ExtraKeysIgnored ==
    op = "validateExtra" => res[2] = res[1]

\* an invalid config, validated with and without the undeclared key c
ExtraKeysIgnoredWitness ==
    /\ op = "validateExtra"
    /\ KC \in DOMAIN args[3] /\ KC \notin DOMAIN args[2] /\ KC \notin DOMAIN args[1]
    /\ ~res[1].valid
    /\ Len(res[2].errors) = 2

\* what C19 says validateField returns: the errors, named after the field, of
\* validate of the defaults with the field overridden by the value
ClaimedValidateField(schema, fieldName, value) ==
    LET defaults == [f \in {g \in DOMAIN schema : schema[g].default # Undef} |->
                        schema[f].default]
        errors == ErrorsFor(Validate(schema, Assign(defaults, fieldName :> value)), fieldName)
    IN [valid |-> errors = <<>>, errors |-> errors]

\* C19 (as claimed): for every field name and every value, validateField
\* returns exactly the errors named after the field of validate of the
\* defaults with the field overridden, valid being true iff there is none.
ValidateFieldIsFilteredValidate ==
    op = "validateField" => res[1] = ClaimedValidateField(args[1], args[3], args[4])

\* C19 (amended): the same for every field name the schema declares (and
\* for the names the schema object inherits, as constructor); for any other
\* name validateField returns valid = false with one error named after it
\* (validate ignores such a key).
ValidateFieldDeclared ==
    op = "validateField" =>
        IF args[3] \in DOMAIN args[1] \cup ObjectPrototype
        THEN res[1] = ClaimedValidateField(args[1], args[3], args[4])
        ELSE /\ ~res[1].valid
             /\ Len(res[1].errors) = 1
             /\ res[1].errors[1].field = args[3]
             /\ res[1].errors[1].value = args[4]

\* field a is validated with a valid value while the required field b has no
\* default: valid, although validate of the same object is not
ValidateFieldDeclaredWitness ==
    /\ op = "validateField"
    /\ args[3] = KA
    /\ DOMAIN args[1] = {KA, KB}
    /\ Truthy(args[1][KB].required) /\ args[1][KB].type = "string"
    /\ res[1].valid
    /\ ~Validate(args[1], Assign(GetDefaults(args[1]), KA :> args[4])).valid

\* field f is a number field with a bound and the config holds a number
NumberCase(f) ==
    /\ op = "validate"
    /\ f \in DOMAIN args[1]
    /\ args[1][f].type = "number"
    /\ (args[1][f].min # Undef \/ args[1][f].max # Undef)
    /\ f \in DOMAIN args[2]
    /\ TypeOf(args[2][f]) = "number"

InRange(fieldSchema, v) ==
    /\ fieldSchema.min # Undef => fieldSchema.min[2] <= v
    /\ fieldSchema.max # Undef => v <= fieldSchema.max[2]

\* the value is accepted iff it is in the range, bounds included, and a value
\* outside gives valid = false and errors named after the field carrying it
RangeIsInclusive(f) ==
    LET errors == ErrorsFor(res[1], f)
    IN /\ InRange(args[1][f], args[2][f][2]) <=> errors = <<>>
       /\ ~InRange(args[1][f], args[2][f][2]) =>
             /\ ~res[1].valid
             /\ \A i \in 1..Len(errors) : errors[i].value = args[2][f]

\* C20 (as claimed): a number is accepted iff min <= v <= max, and a value
\* outside the range gives valid = false and exactly one error, named after
\* the field and carrying the value.
NumberRangeOneError ==
    \A f \in {KA, KB} :
        NumberCase(f) =>
            /\ RangeIsInclusive(f)
            /\ ~InRange(args[1][f], args[2][f][2]) => Len(ErrorsFor(res[1], f)) = 1

\* C20 (amended): the same, with exactly one error when the value is beyond
\* one bound only, which is every value outside the range when min <= max;
\* with min > max a value between the two is beyond both and has two errors.
NumberRangeOneErrorPerBound ==
    \A f \in {KA, KB} :
        NumberCase(f) =>
            /\ RangeIsInclusive(f)
            /\ LET v == args[2][f][2]
                   below == args[1][f].min # Undef /\ v < args[1][f].min[2]
                   above == args[1][f].max # Undef /\ v > args[1][f].max[2]
               IN Len(ErrorsFor(res[1], f)) =
                     (IF below THEN 1 ELSE 0) + (IF above THEN 1 ELSE 0)

\* {a: {type: number, min: 1, max: 2}} and {a: 3}: one error, for a, with 3
NumberRangeOneErrorPerBoundWitness ==
    /\ NumberCase(KA)
    /\ DOMAIN args[1] = {KA}
    /\ args[1][KA].min = Num(1) /\ args[1][KA].max = Num(2)
    /\ args[2][KA] = Num(3)
    /\ ~res[1].valid
    /\ Len(res[1].errors) = 1
    /\ res[1].errors[1].field = KA /\ res[1].errors[1].value = Num(3)

-----------------------------------------------------------------------------
(* C21: patterns and enums of string fields                                  *)

\* field f is a string field and the config holds a string for it
StringCase(f) ==
    /\ op = "validate"
    /\ f \in DOMAIN args[1]
    /\ args[1][f].type = "string"
    /\ f \in DOMAIN args[2]
    /\ args[2][f][1] = "string"

\* validate reports no error for the field
Accepted(f) == ErrorsFor(res[1], f) = <<>>

\* the pattern matches the whole of the string, not only a part of it
MatchesWhole(pattern, str) == str = pattern[3]

\* the value is one of the values of the enum
InEnum(enum, v) == \E i \in 1..Len(enum[2]) : enum[2][i] = v

\* with an enum the value is accepted iff it is a member of the enum,
\* whatever the pattern, minLength and maxLength of the field are
EnumSupersedes ==
    \A f \in {KA, KB} :
        (StringCase(f) /\ Truthy(args[1][f].enum)) =>
            (Accepted(f) <=> InEnum(args[1][f].enum, args[2][f]))

\* C21: for a string field with a pattern and no enum a value is accepted
\* only if the whole string matches the pattern; with an enum the value is
\* accepted iff it is a member of the enum, and pattern, minLength and
\* maxLength are not applied.
PatternMatchesWholeString ==
    /\ \A f \in {KA, KB} :
          (StringCase(f) /\ ~Truthy(args[1][f].enum) /\ Truthy(args[1][f].pattern)
             /\ Accepted(f))
          => MatchesWhole(args[1][f].pattern, args[2][f][2])
    /\ EnumSupersedes
-----------------------------------------------------------------------------
(* C22: validate and validateField are total                                 *)

\* the calls of validate and validateField
ValidationOps == {"validate", "validateExtra", "validateField", "validateHostile", "validateBuilt"}

\* r is a ValidationResult: valid and a list of errors with a field and a
\* message each, valid being true iff the list is empty
IsValidationResult(r) ==
    /\ DOMAIN r = {"valid", "errors"}
    /\ r.valid \in BOOLEAN
    /\ r.valid <=> r.errors = <<>>
    /\ \A i \in 1..Len(r.errors) : {"field", "message"} \subseteq DOMAIN r.errors[i]

\* C22: on a constructed validator validate and validateField return a
\* ValidationResult for every input (a config object, null, a number, an
\* array, an object whose getter throws, any value and field name) and never
\* throw; a failure is an entry of errors.
ValidationIsTotal ==
    op \in ValidationOps => IsValidationResult(res[Len(res)])

\* a getter of field a throws while parse reads it: the result has the one
\* error _unknown
ValidationIsTotalWitness ==
    /\ op = "validateHostile"
    /\ args[2] = Obj(KA :> Getter)
    /\ KA \in DOMAIN args[1]
    /\ ~res[1].valid
    /\ res[1].errors[1].field = <<"_unknown">>

-----------------------------------------------------------------------------
(* C23, C24: what the constructor rejects                                    *)

\* the schema has a field whose type is none of string, number, boolean, json
HasUnknownType(schema) ==
    \E f \in DOMAIN schema : schema[f].type \notin {"string", "number", "boolean", "json"}

\* the schema has a string field whose pattern is no regular expression
HasBadPattern(schema) ==
    \E f \in DOMAIN schema : schema[f].type = "string" /\ schema[f].pattern = BadPattern

\* C23: constructing a validator from a schema with a field of a type other
\* than string, number, boolean or json fails at construction time, and
\* validate is never called on a validator of such a schema.
UnknownTypeFailsConstruction ==
    /\ (op = "construct" /\ HasUnknownType(args[1])) => res[1][1] = "throw"
    /\ op = "validateBuilt" => ~HasUnknownType(args[1])

\* C24: constructing a validator from a schema in which a string field has a
\* pattern that is no regular expression fails at construction time; validate
\* is never called on a validator of such a schema.
BadPatternFailsConstruction ==
    /\ (op = "construct" /\ HasBadPattern(args[1])) => res[1][1] = "throw"
    /\ op = "validateBuilt" => ~HasBadPattern(args[1])

\* the bad pattern belongs to a field with an enum, which would never test
\* it: the constructor has thrown all the same
BadPatternFailsConstructionWitness ==
    /\ op = "construct"
    /\ args[1][KA].type = "string"
    /\ args[1][KA].pattern = BadPattern
    /\ Truthy(args[1][KA].enum)
    /\ res[1][1] = "throw"
-----------------------------------------------------------------------------
(* EnvManager.  manager holds the fields of the object (crypto.key is        *)
(* cryptoKey), project the files of the base directory: the .env.<name>      *)
(* files by name, each a function from its keys to the text of their values, *)
(* the content of .env.current, the schema of .env.schema.json and the       *)
(* content of .env.key (Null when the file does not exist).  observed holds  *)
(* the cancel functions watch returned, the events the listeners were        *)
(* called with, the promises that were rejected with no handler, and the     *)
(* number of values randomBytes has given.                                   *)

\* the text of a word, one unit per character
Text(word) == [i \in 1..Len(word) |-> U(word[i])]

\* String(value), for the values of a config
StringOf(value) ==
    IF value[1] = "string" THEN value[2]
    ELSE IF value[1] = "number" THEN <<U(<<"0", "1", "2", "3", "4", "5", "6", "7", "8", "9">>[value[2] + 1])>>
    ELSE IF value[1] = "undefined" THEN Text(<<"u", "n", "d", "e", "f", "i", "n", "e", "d">>)
    ELSE Text(<<"[", "o", "b", "j", "e", "c", "t", " ", "O", "b", "j", "e", "c", "t", "]">>)

\* the value serialize writes: quoted when it holds a space or a #
SerializedValue(value) ==
    LET serializedValue == StringOf(value)
    IN IF \E i \in 1..Len(serializedValue) : serializedValue[i] \in {U(" "), U("#")}
       THEN <<U("\"")>> \o serializedValue \o <<U("\"")>>
       ELSE serializedValue

\* ConfigLoader.serialize: the text of the value of every key
Serialize(configToSave) == [k \in DOMAIN configToSave |-> SerializedValue(configToSave[k])]

\* the value dotenv reads from the text of a line: surrounding double quotes
\* are removed
ParsedValue(text) ==
    IF Len(text) >= 2 /\ text[1] = U("\"") /\ text[Len(text)] = U("\"")
    THEN Str(SubSeq(text, 2, Len(text) - 1))
    ELSE Str(text)

\* a loader that reads a missing file as an empty one
LoaderLoadLenient(files, environment) ==
    IF environment \in DOMAIN files.envs
    THEN Returned([k \in DOMAIN files.envs[environment] |-> ParsedValue(files.envs[environment][k])])
    ELSE Returned(EmptyObj)

\* ConfigLoader.load
LoaderLoad(files, environment) ==
    IF environment \in DOMAIN files.envs
    THEN Returned([k \in DOMAIN files.envs[environment] |-> ParsedValue(files.envs[environment][k])])
    ELSE Throw("file does not exist", environment)

\* ConfigLoader.loadWithInheritance
LoadWithInheritance(files, environment, baseEnvironment) ==
    LET baseConfig == LoaderLoad(files, baseEnvironment[2])
        envConfig  == LoaderLoad(files, environment)
    IN IF Truthy(baseEnvironment) /\ baseConfig[1] = "throw" THEN baseConfig
       ELSE IF envConfig[1] = "throw" THEN envConfig
       ELSE Returned(Assign(IF Truthy(baseEnvironment) THEN baseConfig[2] ELSE EmptyObj,
                            envConfig[2]))

\* ConfigLoader.loadSchema
LoadSchema(files) ==
    IF files.schema = Null THEN Throw("schema file does not exist", "")
    ELSE Returned(files.schema[2])

\* ConfigLoader.getCurrentEnvironment
GetCurrentEnvironment(files) == files.current

\* an object of values as the one object of a heap
AsHeap(obj) == <<[keys |-> SeqOf(DOMAIN obj), val |-> obj]>>

\* CryptoManager.encryptFields on an object of values; draws is the number of
\* values randomBytes has given before
EncryptFields(k, obj, fields, draws) ==
    LET m == HEncryptFields(AsHeap(obj), k, 1, fields, [i \in 1..Len(fields) |-> draws + i])
    IN IF m.r[1] = "throw" THEN m.r ELSE Returned(m.h[m.r[2][2]].val)

\* CryptoManager.autoDecrypt on an object of values
AutoDecrypt(k, obj) ==
    LET m == HAutoDecrypt(AsHeap(obj), k, 1)
    IN m.h[m.r[2][2]].val

\* the changes of an event, from the diff
Changes(diff, oldConfig, newConfig) ==
       [i \in 1..Len(diff.added) |->
           [key |-> diff.added[i], oldValue |-> Undef,
            newValue |-> newConfig[diff.added[i]], action |-> "add"]]
    \o [i \in 1..Len(diff.removed) |->
           [key |-> diff.removed[i], oldValue |-> oldConfig[diff.removed[i]],
            newValue |-> Undef, action |-> "delete"]]
    \o [i \in 1..Len(diff.modified) |->
           [key |-> diff.modified[i].key, oldValue |-> diff.modified[i].from,
            newValue |-> diff.modified[i].to, action |-> "update"]]

\* EnvManager.notifyChange: the calls of the listeners, in order
NotifyChange(listeners, oldConfig, newConfig, environment) ==
    IF Len(listeners) = 0 THEN <<>>
    ELSE LET changes == Changes(Diff(oldConfig, newConfig), oldConfig, newConfig)
         IN IF Len(changes) > 0
            THEN [i \in 1..Len(listeners) |->
                     [listener |-> listeners[i], environment |-> environment,
                      changes |-> changes]]
            ELSE <<>>

\* EnvManager.load(environment, baseEnvironment): the manager and the files
\* afterwards, the calls of the listeners, and what the promise settles to
Load(m, files, k, environment, baseEnvironment) ==
    LET loadedSchema == LoadSchema(files)
        built  == IF loadedSchema[1] = "return" THEN Construct(loadedSchema[2]) ELSE loadedSchema
        m1     == [m EXCEPT !.schema = IF loadedSchema[1] = "return" THEN Obj(loadedSchema[2]) ELSE @,
                            !.validator = IF built[1] = "return" THEN Obj(loadedSchema[2]) ELSE @]
        loaded == IF Truthy(baseEnvironment)
                  THEN LoadWithInheritance(files, environment, baseEnvironment)
                  ELSE LoaderLoad(files, environment)
    IN IF loaded[1] = "throw"
       THEN [manager |-> m1, files |-> files, delivered |-> <<>>, r |-> loaded]
       ELSE LET config == IF Truthy(m.encryptionKey) THEN AutoDecrypt(k, loaded[2])
                          ELSE loaded[2]
            IN [manager   |-> [m1 EXCEPT !.config = config, !.currentEnv = Str(environment)],
                files     |-> [files EXCEPT !.current = Str(environment)],
                delivered |-> NotifyChange(m.listeners, m.config, config, environment),
                r         |-> Returned(Undef)]

\* a set that notifies with the whole configuration before and after
SetOldConfigWhole(config, key, oldValue) == config

\* { [key]: oldValue }, the old configuration set gives to notifyChange
SetOldConfig(config, key, oldValue) == (key :> oldValue)

\* EnvManager.set(key, value): the manager afterwards and the calls of the
\* listeners
Set(m, key, value) ==
    LET oldValue == Get(m.config, key)
    IN [manager   |-> [m EXCEPT !.config = Assign(@, key :> value)],
        delivered |-> IF Truthy(m.currentEnv)
                      THEN NotifyChange(m.listeners, SetOldConfig(m.config, key, oldValue),
                                        (key :> value), m.currentEnv[2])
                      ELSE <<>>]

\* EnvManager.save(environment): the files afterwards, the number of values
\* randomBytes has given, and what the promise settles to
Save(m, files, k, environment, draws) ==
    LET env == IF Truthy(environment) THEN environment ELSE m.currentEnv
        secretFields == GetSecretFields(m.validator[2])
        configToSave == IF m.validator[1] # "null" /\ Truthy(m.encryptionKey)
                        THEN EncryptFields(k, m.config, secretFields, draws)
                        ELSE Returned(m.config)
    IN IF ~Truthy(env)
       THEN [files |-> files, draws |-> draws, r |-> Throw("no environment", "")]
       ELSE IF configToSave[1] = "throw"
       THEN [files |-> files, draws |-> draws, r |-> configToSave]
       ELSE [files |-> [files EXCEPT !.envs = Assign(@, env[2] :> Serialize(configToSave[2]))],
             draws |-> draws + Cardinality(DOMAIN m.config),
             r     |-> Returned(Undef)]

\* the cancel function of watch(listener): indexOf and splice
Unwatch(listeners, listener) ==
    IF \E i \in 1..Len(listeners) : listeners[i] = listener
    THEN LET index == CHOOSE i \in 1..Len(listeners) :
                         /\ listeners[i] = listener
                         /\ \A j \in 1..(i - 1) : listeners[j] # listener
         IN SubSeq(listeners, 1, index - 1) \o SubSeq(listeners, index + 1, Len(listeners))
    ELSE listeners

-----------------------------------------------------------------------------
(* SpecEnv: a project directory with two environment files, with or without *)
(* .env.current, a schema and a key file; a manager is constructed on it and *)
(* set, load, save, saveKey and watch are called in any order                *)

MaxCalls == 3       \* the calls on the manager after its construction

Dev == <<"d">>      \* .env.d and .env.p exist, .env.g does not
Prod == <<"p">>
Ghost == <<"g">>

K1 == <<"k1">>      \* the content of .env.key
K2 == <<"k2">>      \* the key given to saveKey

PlainB == Str(<<U("b")>>)

\* "a" encrypted under the key of .env.key
SecretText == Encrypt(Scrypt(K1), RandomIv(0), <<U("a")>>)[2]

\* field a is public and field b is secret
SecretSchema ==
    (KA :> FieldSpec("string", EmptyObj))
        @@ (KB :> FieldSpec("string", ("secret" :> Bool(TRUE))))

\* the same with a pattern that does not compile
BrokenSchema ==
    (KA :> FieldSpec("string", EmptyObj))
        @@ (KB :> FieldSpec("string", ("secret" :> Bool(TRUE)) @@ ("pattern" :> BadPattern)))

EnvFiles ==
    (Dev :> ((KA :> <<U("a")>>) @@ (KB :> SecretText)))
        @@ (Prod :> (KA :> <<U("b")>>))

Projects ==
    { [envs |-> EnvFiles, current |-> c, schema |-> s, key |-> k] :
        c \in {Null, Str(Dev), Str(Ghost)},
        s \in {Null, Obj(SecretSchema), Obj(BrokenSchema)},
        k \in {Null, Str(K1)} }

\* the field initialisers of EnvManager
NewManager ==
    [validator |-> Null, currentEnv |-> Null, config |-> EmptyObj, schema |-> Null,
     listeners |-> <<>>, encryptionKey |-> Str(<<>>)]

\* nothing was called yet; limit is the number of calls of the run
NothingObserved(limit) ==
    [cancels |-> <<>>, delivered |-> <<>>, unhandled |-> 0, draws |-> 0, calls |-> 0,
     limit |-> limit]

InitEnv ==
    /\ project \in Projects
    /\ manager = NewManager
    /\ observed = NothingObserved(MaxCalls)
    /\ cryptoKey = NoKey
    /\ args = <<>>
    /\ op = "start"
    /\ res = <<>>
    /\ heap = <<>>
    /\ box = <<>>
    /\ sent = <<>>
    /\ altered = FALSE
    /\ step = "new"
    /\ out = <<>>
    /\ cache = <<>>
    /\ now = 0

\* what the actions of the EnvManager leave alone
EnvFrame == UNCHANGED <<heap, box, sent, altered, step, out, cacheVars>>

\* EnvManager.loadEncryptionKey: the content of .env.key, or ''
LoadEncryptionKey(files) == IF files.key[1] = "null" THEN Str(<<>>) ELSE files.key

\* new EnvManager({ baseDir, autoLoad }): autoLoad calls load without awaiting
\* it, so a load that fails is a promise rejected with no handler
New ==
    /\ op = "start"
    /\ \E autoLoad \in BOOLEAN :
          LET encryptionKey == LoadEncryptionKey(project)
              k  == IF Truthy(encryptionKey) THEN Scrypt(encryptionKey[2]) ELSE NoKey
              m  == [manager EXCEPT !.encryptionKey = encryptionKey]
              currentEnv == GetCurrentEnvironment(project)
              l  == Load(m, project, k, currentEnv[2], Undef)
          IN /\ cryptoKey' = k
             /\ args' = <<autoLoad>>
             /\ IF autoLoad /\ Truthy(currentEnv)
                THEN /\ manager' = l.manager
                     /\ project' = l.files
                     /\ observed' = [observed EXCEPT
                                       !.unhandled = IF l.r[1] = "throw" THEN @ + 1 ELSE @]
                ELSE /\ manager' = m
                     /\ UNCHANGED <<project, observed>>
    /\ op' = "new"
    /\ res' = Returned(Undef)
    /\ EnvFrame

\* a call on the constructed manager
Called == op # "start" /\ observed.calls < observed.limit

\* await manager.load(environment, baseEnvironment)
DoLoad ==
    /\ Called
    /\ \E a \in {<<Dev, Undef>>, <<Prod, Undef>>, <<Ghost, Undef>>,
                 <<Prod, Str(Dev)>>, <<Dev, Str(Ghost)>>} :
          LET l == Load(manager, project, cryptoKey, a[1], a[2])
          IN /\ manager' = l.manager
             /\ project' = l.files
             /\ observed' = [observed EXCEPT !.delivered = l.delivered, !.calls = @ + 1]
             /\ res' = l.r
             /\ args' = a
    /\ op' = "load"
    /\ UNCHANGED cryptoKey
    /\ EnvFrame

\* the values given to set
SetValues == {PlainB, Undef, Obj(KA :> Num(1))}

\* manager.set(key, value)
DoSet ==
    /\ Called
    /\ \E key \in {KA, KB}, value \in SetValues :
          LET s == Set(manager, key, value)
          IN /\ manager' = s.manager
             /\ observed' = [observed EXCEPT !.delivered = s.delivered, !.calls = @ + 1]
             /\ args' = <<key, value>>
    /\ op' = "set"
    /\ res' = Returned(Undef)
    /\ UNCHANGED <<project, cryptoKey>>
    /\ EnvFrame

\* await manager.save(environment)
DoSave ==
    /\ Called
    /\ \E environment \in {Undef, Str(Prod)} :
          LET s == Save(manager, project, cryptoKey, environment, observed.draws)
          IN /\ project' = s.files
             /\ observed' = [observed EXCEPT !.draws = s.draws, !.delivered = <<>>,
                                             !.calls = @ + 1]
             /\ res' = s.r
             /\ args' = <<environment>>
    /\ op' = "save"
    /\ UNCHANGED <<manager, cryptoKey>>
    /\ EnvFrame

\* manager.saveKey(key)
DoSaveKey ==
    /\ Called
    /\ project' = [project EXCEPT !.key = Str(K2)]
    /\ cryptoKey' = Scrypt(K2)
    /\ manager' = [manager EXCEPT !.encryptionKey = Str(K2)]
    /\ observed' = [observed EXCEPT !.delivered = <<>>, !.calls = @ + 1]
    /\ args' = <<K2>>
    /\ op' = "saveKey"
    /\ res' = Returned(Undef)
    /\ EnvFrame

\* the listener functions
Listeners == {"f", "g"}

\* manager.watch(listener): the returned function is kept by the caller
Watch(listener) ==
    /\ manager' = [manager EXCEPT !.listeners = Append(@, listener)]
    /\ observed' = [observed EXCEPT !.cancels = Append(@, [listener |-> listener, called |-> 0]),
                                    !.delivered = <<>>, !.calls = @ + 1]
    /\ args' = <<listener>>
    /\ op' = "watch"
    /\ res' = Returned(Undef)
    /\ UNCHANGED <<project, cryptoKey>>
    /\ EnvFrame

\* manager.watch(f), once
DoWatch == Called /\ manager.listeners = <<>> /\ Watch("f")

NextEnv == New \/ DoLoad \/ DoSet \/ DoSave \/ DoSaveKey \/ DoWatch

SpecEnv == InitEnv /\ [][NextEnv]_vars

-----------------------------------------------------------------------------
(* C25: save encrypts the secret fields                                      *)

\* save has written the file of an environment
Saved == op = "save" /\ res[1] = "return"

\* the file save has written
Written ==
    project.envs[IF Truthy(args[1]) THEN args[1][2] ELSE manager.currentEnv[2]]

\* in the written file every secret string field of the schema is encrypted
\* and every field that is not secret is the text of its value
SecretsEncrypted(schema) ==
    \A f \in DOMAIN manager.config :
        IF f \in DOMAIN schema /\ Truthy(schema[f].secret)
        THEN manager.config[f][1] = "string" => IsEncrypted(Written[f])
        ELSE Written[f] = SerializedValue(manager.config[f])

\* C25: in a project with a (well-formed) schema file and an encryption key, whatever was
\* called before (construction, set, load, saveKey), save writes every string
\* field the schema marks secret in encrypted form and every field that is
\* not secret as it is.
SaveEncryptsSecrets ==
    (/\ Saved
     /\ project.schema[1] # "null" /\ Construct(project.schema[2])[1] = "return"
     /\ project.key[1] # "null")
        => SecretsEncrypted(project.schema[2])

\* the same once a load has built the validator from the schema file
SaveEncryptsSecretsOnceLoaded ==
    (Saved /\ manager.validator[1] # "null" /\ project.key[1] # "null")
        => SecretsEncrypted(manager.validator[2])

-----------------------------------------------------------------------------
(* SpecWatch: on a manager that has loaded an environment, listeners are     *)
(* registered, the functions watch returned are called (any of them, any     *)
(* number of times) and values are set                                       *)

MaxWatchCalls == 5  \* the calls on the manager

\* a project with the two environment files only
BareProject == [envs |-> EnvFiles, current |-> Null, schema |-> Null, key |-> Null]

\* new EnvManager({ baseDir }) and await manager.load('d')
InitWatch ==
    /\ manager = Load(NewManager, BareProject, NoKey, Dev, Undef).manager
    /\ project = Load(NewManager, BareProject, NoKey, Dev, Undef).files
    /\ observed = NothingObserved(MaxWatchCalls)
    /\ cryptoKey = NoKey
    /\ args = <<Dev, Undef>>
    /\ op = "load"
    /\ res = Returned(Undef)
    /\ heap = <<>>
    /\ box = <<>>
    /\ sent = <<>>
    /\ altered = FALSE
    /\ step = "new"
    /\ out = <<>>
    /\ cache = <<>>
    /\ now = 0

\* manager.watch(listener), for any listener
DoWatchAny == Called /\ \E listener \in Listeners : Watch(listener)

\* a function that watch returned is called
DoCancel ==
    /\ Called
    /\ \E i \in 1..Len(observed.cancels) :
          /\ manager' = [manager EXCEPT !.listeners = Unwatch(@, observed.cancels[i].listener)]
          /\ observed' = [observed EXCEPT !.cancels[i].called = @ + 1,
                                          !.delivered = <<>>, !.calls = @ + 1]
          /\ args' = <<i>>
    /\ op' = "cancel"
    /\ res' = Returned(Undef)
    /\ UNCHANGED <<project, cryptoKey>>
    /\ EnvFrame

NextWatch == DoWatchAny \/ DoCancel \/ DoSet

SpecWatch == InitWatch /\ [][NextWatch]_vars

\* the number of elements of a list that satisfy P
CountOf(list, P(_)) == Cardinality({i \in 1..Len(list) : P(list[i])})

\* the registrations of the listener whose cancel function was never called
Live(listener) ==
    CountOf(observed.cancels, LAMBDA c : c.listener = listener /\ c.called = 0)

\* the registrations of the listener the manager holds
Registered(listener) == CountOf(manager.listeners, LAMBDA l : l = listener)

\* the calls of the listener for the last change
Invoked(listener) == CountOf(observed.delivered, LAMBDA e : e.listener = listener)

\* C26: a cancel function cancels exactly its own registration: the manager
\* holds (and invokes on a change made by set) exactly the registrations whose
\* cancel function was never called, however often the other cancel functions
\* were called and also when one listener function was registered twice.
CancelsExactlyItsRegistration ==
    \A listener \in Listeners :
        /\ Registered(listener) = Live(listener)
        /\ (op = "set" /\ observed.delivered # <<>>) => Invoked(listener) = Live(listener)

\* no listener function was registered more than once
NoListenerTwice ==
    \A i, j \in 1..Len(observed.cancels) :
        observed.cancels[i].listener = observed.cancels[j].listener => i = j

\* the same when every listener function is registered at most once
CancelsItsRegistrationOfDistinctListeners ==
    NoListenerTwice =>
        \A listener \in Listeners :
            /\ Registered(listener) = Live(listener)
            /\ (op = "set" /\ observed.delivered # <<>>) => Invoked(listener) = Live(listener)

-----------------------------------------------------------------------------
(* C27: the automatic load of the constructor                                *)

\* the constructor ran autoLoad for an environment that has no file
AutoLoadFailed ==
    /\ op = "new"
    /\ args[1]
    /\ Truthy(project.current)
    /\ project.current[2] \notin DOMAIN project.envs

\* C27: a failure of the automatic load in the constructor is swallowed:
\* construction completes, no error reaches the caller or the process as an
\* unhandled failure, and the manager can load an environment afterwards.
AutoLoadFailureIsSwallowed ==
    /\ AutoLoadFailed => (res[1] = "return" /\ manager.currentEnv = Null)
    /\ observed.unhandled = 0

\* what holds of it: the constructor returns, the manager has no environment,
\* and a later load of an environment that has a file succeeds
AutoLoadFailureLeavesManagerUsable ==
    /\ AutoLoadFailed => (res[1] = "return" /\ manager.currentEnv = Null)
    /\ (op = "load" /\ args[1] \in DOMAIN project.envs /\ ~Truthy(args[2]))
          => (res[1] = "return" /\ manager.currentEnv = Str(args[1]))

-----------------------------------------------------------------------------
(* C29, C30: the change events of set and the outcome of load                *)

\* two values are deeply equal
SameValue(a, b) == a[1] = b[1] /\ a = b

\* two configurations have the same keys with deeply equal values
SameConfig(a, b) == DOMAIN a = DOMAIN b /\ \A k \in DOMAIN a : SameValue(a[k], b[k])

\* C29: listeners are invoked only when a key was added, removed or
\* modified: set(key, v) with v deeply equal to the current value delivers no
\* event, and no event is delivered while no environment is loaded; an event
\* of set(key, v) holds exactly one change, for key, whose action is update,
\* also when the key was not in the configuration before.
SetEventsAreUpdates ==
    [][ /\ observed'.delivered # <<>> => ~SameConfig(manager'.config, manager.config)
        /\ (op' = "set" /\ observed'.calls = observed.calls + 1) =>
              /\ (SameValue(Get(manager.config, args'[1]), args'[2])
                    \/ manager.currentEnv = Null)
                 => observed'.delivered = <<>>
              /\ \A i \in 1..Len(observed'.delivered) :
                    /\ Len(observed'.delivered[i].changes) = 1
                    /\ observed'.delivered[i].changes[1].action = "update"
                    /\ observed'.delivered[i].changes[1].key = args'[1]
                    /\ SameValue(observed'.delivered[i].changes[1].newValue, args'[2])
      ]_vars

\* set was called for key b, which the loaded configuration did not have: the
\* listener got one change, an update from undefined
SetEventsAreUpdatesWitness ==
    /\ op = "set"
    /\ args[1] = KB
    /\ manager.currentEnv = Str(Prod)
    /\ Len(observed.delivered) = 1
    /\ observed.delivered[1].changes[1].action = "update"
    /\ observed.delivered[1].changes[1].oldValue = Undef
    /\ observed.delivered[1].changes[1].newValue = PlainB

\* the text of the lines of the files load reads: the file of the
\* environment over the file of the base environment
FileTexts(files, environment, baseEnvironment) ==
    Assign(IF Truthy(baseEnvironment) THEN files.envs[baseEnvironment[2]] ELSE EmptyObj,
           files.envs[environment])

\* the value of a loaded line: decrypted when a key is set and the text is an
\* encrypted value of that key, the text itself otherwise
LoadedValue(text, encryptionKey, k) ==
    IF Truthy(encryptionKey) /\ IsEncrypted(text) /\ Decrypt(k, text)[1] = "return"
    THEN Str(Decrypt(k, text)[2])
    ELSE ParsedValue(text)

\* the file of the environment or of the base environment does not exist
FileMissing(files, environment, baseEnvironment) ==
    \/ environment \notin DOMAIN files.envs
    \/ Truthy(baseEnvironment) /\ baseEnvironment[2] \notin DOMAIN files.envs

\* C30: a load that fails because the file of the environment (or of the
\* base environment) does not exist leaves the configuration, current() and
\* the marker file as they were and notifies no listener; after a load that
\* succeeds current() is the environment, the marker file holds it and all()
\* is the loaded, decrypted configuration.
LoadIsAllOrNothing ==
    [][ (op' = "load" /\ observed'.calls = observed.calls + 1) =>
          IF FileMissing(project, args'[1], args'[2])
          THEN /\ res'[1] = "throw"
               /\ SameConfig(manager'.config, manager.config)
               /\ manager'.currentEnv = manager.currentEnv
               /\ project'.current = project.current
               /\ observed'.delivered = <<>>
          ELSE /\ res'[1] = "return"
               /\ manager'.currentEnv = Str(args'[1])
               /\ project'.current = Str(args'[1])
               /\ LET texts == FileTexts(project, args'[1], args'[2])
                  IN /\ DOMAIN manager'.config = DOMAIN texts
                     /\ \A k \in DOMAIN texts :
                           manager'.config[k]
                              = LoadedValue(texts[k], manager.encryptionKey, cryptoKey)
      ]_vars

\* load('g') has failed on a manager that had loaded d and has a listener:
\* the configuration of d, current() and the marker are still there
LoadIsAllOrNothingWitness ==
    /\ op = "load"
    /\ args[1] = Ghost
    /\ res[1] = "throw"
    /\ manager.currentEnv = Str(Dev)
    /\ project.current = Str(Dev)
    /\ DOMAIN manager.config = {KA, KB}
    /\ manager.listeners # <<>>
    /\ observed.delivered = <<>>

-----------------------------------------------------------------------------
(* ConfigCache.  cache holds the entries of the Map in insertion order, each *)
(* with its key, expiresAt and lastAccess, and the options maxSize and       *)
(* defaultTTL; now is Date.now().  The cached values and the statistics do   *)
(* not influence which entries are kept and are left out.                    *)

\* let oldestTime = Infinity: larger than every time of a run
Infinity == 1000000

\* ConfigCache.isExpired
IsExpired(entry, t) == t > entry.expiresAt

\* this.cache.has(key)
MapHas(entries, key) == \E i \in 1..Len(entries) : entries[i].key = key

\* this.cache.get(key), for a key the Map has
MapGet(entries, key) == entries[CHOOSE i \in 1..Len(entries) : entries[i].key = key]

\* this.cache.delete(key)
MapDelete(entries, key) == SelectSeq(entries, LAMBDA e : e.key # key)

\* this.cache.set(key, entry): a key the Map has keeps its place
MapSet(entries, entry) ==
    IF MapHas(entries, entry.key)
    THEN [i \in 1..Len(entries) |-> IF entries[i].key = entry.key THEN entry ELSE entries[i]]
    ELSE Append(entries, entry)

\* the loop of evict from the i-th entry on, and the delete after it
RECURSIVE EvictScan(_, _, _, _, _)
EvictScan(entries, i, oldestKey, oldestTime, t) ==
    IF i > Len(entries)
    THEN IF Truthy(oldestKey) THEN MapDelete(entries, oldestKey[2]) ELSE entries
    ELSE IF IsExpired(entries[i], t) THEN MapDelete(entries, entries[i].key)
    ELSE IF entries[i].lastAccess < oldestTime
    THEN EvictScan(entries, i + 1, Str(entries[i].key), entries[i].lastAccess, t)
    ELSE EvictScan(entries, i + 1, oldestKey, oldestTime, t)

\* ConfigCache.evict
Evict(entries, t) == EvictScan(entries, 1, Null, Infinity, t)

\* ConfigCache.set(key, value, ttl)
CacheSet(c, key, ttl, t) ==
    LET kept  == IF Len(c.entries) >= c.maxSize /\ ~MapHas(c.entries, key)
                 THEN Evict(c.entries, t) ELSE c.entries
        entry == [key |-> key,
                  expiresAt |-> t + (IF ttl = Undef THEN c.defaultTTL ELSE ttl[2]),
                  lastAccess |-> t]
    IN [c EXCEPT !.entries = MapSet(kept, entry)]

\* ConfigCache.get(key): the cache afterwards
CacheGet(c, key, t) ==
    IF ~MapHas(c.entries, key) THEN c
    ELSE IF IsExpired(MapGet(c.entries, key), t)
    THEN [c EXCEPT !.entries = MapDelete(@, key)]
    ELSE [c EXCEPT !.entries = MapSet(@, [MapGet(c.entries, key) EXCEPT !.lastAccess = t])]

\* ConfigCache.has(key): the cache afterwards
CacheHas(c, key, t) ==
    IF MapHas(c.entries, key) /\ IsExpired(MapGet(c.entries, key), t)
    THEN [c EXCEPT !.entries = MapDelete(@, key)]
    ELSE c

\* ConfigCache.refresh(key, ttl): the cache afterwards
CacheRefresh(c, key, ttl, t) ==
    IF ~MapHas(c.entries, key) \/ IsExpired(MapGet(c.entries, key), t) THEN c
    ELSE [c EXCEPT !.entries =
             MapSet(@, [MapGet(c.entries, key) EXCEPT
                           !.expiresAt = t + (IF ttl = Undef THEN c.defaultTTL ELSE ttl[2]),
                           !.lastAccess = t])]

\* ConfigCache.cleanup, the callback of the timer
Cleanup(c, t) == [c EXCEPT !.entries = SelectSeq(@, LAMBDA e : ~(t > e.expiresAt))]

-----------------------------------------------------------------------------
(* SpecCache: a cache of one or two entries at most is used with the keys    *)
(* '', 'a' and 'b' while time passes                                         *)

MaxSize == 2        \* maxSize is 1..MaxSize
MaxNow == 2         \* Date.now() is 0..MaxNow
MaxCacheCalls == 4  \* the calls on the cache

KEmpty == <<>>      \* the empty string

CacheKeys == {KEmpty, KA, KB}

Ttls == {Undef, Num(0)}

InitCache ==
    /\ cache \in {[entries |-> <<>>, maxSize |-> n, defaultTTL |-> 1] : n \in 1..MaxSize}
    /\ now = 0
    /\ args = <<>>
    /\ op = "idle"
    /\ res = 0
    /\ heap = <<>>
    /\ CryptoIdle
    /\ manager = <<>>
    /\ project = <<>>
    /\ observed = <<>>

\* what the actions of the cache leave alone
CacheFrame == UNCHANGED <<heap, cryptoVars, envVars>>

\* one more call on the cache; res is the number of calls so far
CacheCalled == res < MaxCacheCalls /\ res' = res + 1

DoCacheSet ==
    /\ CacheCalled
    /\ \E key \in CacheKeys, ttl \in Ttls :
          /\ cache' = CacheSet(cache, key, ttl, now)
          /\ args' = <<key, ttl>>
    /\ op' = "set"
    /\ UNCHANGED now
    /\ CacheFrame

DoCacheGet ==
    /\ CacheCalled
    /\ \E key \in CacheKeys :
          /\ cache' = CacheGet(cache, key, now)
          /\ args' = <<key>>
    /\ op' = "get"
    /\ UNCHANGED now
    /\ CacheFrame

DoCacheHas ==
    /\ CacheCalled
    /\ \E key \in CacheKeys :
          /\ cache' = CacheHas(cache, key, now)
          /\ args' = <<key>>
    /\ op' = "has"
    /\ UNCHANGED now
    /\ CacheFrame

DoCacheDelete ==
    /\ CacheCalled
    /\ \E key \in CacheKeys :
          /\ cache' = [cache EXCEPT !.entries = MapDelete(@, key)]
          /\ args' = <<key>>
    /\ op' = "delete"
    /\ UNCHANGED now
    /\ CacheFrame

DoCacheRefresh ==
    /\ CacheCalled
    /\ \E key \in CacheKeys, ttl \in Ttls :
          /\ cache' = CacheRefresh(cache, key, ttl, now)
          /\ args' = <<key, ttl>>
    /\ op' = "refresh"
    /\ UNCHANGED now
    /\ CacheFrame

DoCacheClear ==
    /\ CacheCalled
    /\ cache' = [cache EXCEPT !.entries = <<>>]
    /\ args' = <<>>
    /\ op' = "clear"
    /\ UNCHANGED now
    /\ CacheFrame

\* the timer runs cleanup
DoCleanup ==
    /\ cache' = Cleanup(cache, now)
    /\ cache' # cache
    /\ args' = <<>>
    /\ op' = "cleanup"
    /\ UNCHANGED <<now, res>>
    /\ CacheFrame

\* time passes
Tick ==
    /\ now < MaxNow
    /\ now' = now + 1
    /\ args' = <<>>
    /\ op' = "tick"
    /\ UNCHANGED <<cache, res>>
    /\ CacheFrame

NextCache ==
    \/ DoCacheSet \/ DoCacheGet \/ DoCacheHas \/ DoCacheDelete \/ DoCacheRefresh
    \/ DoCacheClear \/ DoCleanup \/ Tick

SpecCache == InitCache /\ [][NextCache]_vars

\* the keys of the entries
KeysOf(entries) == {entries[i].key : i \in 1..Len(entries)}

\* the step is a set of a key the cache does not hold, on a full cache
SetsNewKeyOnFullCache ==
    /\ op' = "set" /\ res' = res + 1
    /\ Len(cache.entries) >= cache.maxSize
    /\ ~MapHas(cache.entries, args'[1])

\* the step has evicted exactly one entry: an expired one if there is any,
\* otherwise one with the oldest lastAccess
EvictsOneEntry ==
    \E i \in 1..Len(cache.entries) :
        /\ KeysOf(cache'.entries) = (KeysOf(cache.entries) \ {cache.entries[i].key}) \cup {args'[1]}
        /\ Len(cache'.entries) = Len(cache.entries)
        /\ IF \E j \in 1..Len(cache.entries) : IsExpired(cache.entries[j], now)
           THEN IsExpired(cache.entries[i], now)
           ELSE \A j \in 1..Len(cache.entries) :
                   cache.entries[i].lastAccess <= cache.entries[j].lastAccess

\* C28: with maxSize >= 1, after any sequence of set, get, has, delete,
\* refresh and clear with any keys, the empty string included, the cache
\* never holds more than maxSize entries; a set of a new key on a full cache
\* evicts exactly one entry, an expired one if the scan meets one, otherwise
\* the one with the oldest lastAccess.
CacheNeverExceedsMaxSize ==
    [][ /\ Len(cache'.entries) <= cache'.maxSize
        /\ SetsNewKeyOnFullCache => EvictsOneEntry ]_vars

\* the same for the steps from a cache that is within maxSize and in which
\* the key '' is not the one to evict
CacheKeepsMaxSizeButEmptyKey ==
    [][ (/\ Len(cache.entries) <= cache.maxSize
         /\ ~MapHas(cache.entries, KEmpty))
        => /\ Len(cache'.entries) <= cache'.maxSize
           /\ SetsNewKeyOnFullCache => EvictsOneEntry ]_vars
====
